---- MODULE Spec2Model ----
(***************************************************************************)
(* A model of StatusCheckService.py: the six cached endpoints (double-     *)
(* checked TTL cache behind one asyncio.Lock per endpoint), the cache-key  *)
(* construction, and the probe functions.                                  *)
(*                                                                         *)
(* The service runs on one asyncio event loop: code between two awaits is  *)
(* one atomic step.  Each action below is one such step of one request.    *)
(***************************************************************************)
EXTENDS Integers, Sequences, FiniteSets, TLC

(***************************************************************************)
(* Bounds of the model.                                                    *)
(***************************************************************************)
\* number of requests (calls of an endpoint) in one behaviour
MaxCalls == 2
\* the clock runs from 0 to MaxTime
MaxTime == 2

(***************************************************************************)
(* Program constants.                                                      *)
(***************************************************************************)
HYTALE_DEFAULT_QUERY_PORT == 5523
HYTALE_DEFAULT_GAME_PORT == 5520
\* "count: Number of games to return (max 100)"
EPIC_MAX_COUNT == 100

VARIABLES
    clock,      \* time.time(), in whole seconds
    ttl,        \* the four *_CACHE_TTL_SECONDS values read from the environment
    cache,      \* the six module-level cache dicts: endpoint -> (key -> (expires_at, value))
    lock,       \* the six asyncio.Lock objects: endpoint -> holder (0: unlocked)
    waiters,    \* each lock's FIFO queue of suspended acquirers
    call,       \* each request's position and local variables
    keys,       \* two requests of one endpoint, and the keys built for them
    probe,      \* one run of a probe function: the upstream outcome and the result
    mc          \* one run of ping_minecraft_server: its position, attempts and result

vars == <<clock, ttl, cache, lock, waiters, call, keys, probe, mc>>

(***************************************************************************)
(* Python values.  A value is tagged with its type, so that None, the      *)
(* string "None" and the integer 5 are three different values.             *)
(***************************************************************************)
None == [t |-> "none"]
PyStr(s) == [t |-> "str", v |-> s]
PyInt(n) == [t |-> "int", v |-> n]
PyBool(b) == [t |-> "bool", v |-> b]
PyList(s) == [t |-> "list", v |-> s]
PyDict(d) == [t |-> "dict", v |-> d]
\* a raised exception, propagated as a value
Exc(name) == [t |-> "exc", v |-> name]
IsExc(x) == "t" \in DOMAIN x /\ x.t = "exc"

\* the empty dict {}
EmptyDict == PyDict([k \in {} |-> None])

\* Python truthiness (if x: ...)
Truthy(x) ==
    CASE x.t = "none" -> FALSE
      [] x.t = "str"  -> x.v # ""
      [] x.t = "int"  -> x.v # 0
      [] x.t = "bool" -> x.v
      [] x.t = "list" -> x.v # <<>>
      [] x.t = "dict" -> DOMAIN x.v # {}
      [] OTHER        -> TRUE

\* str(x) and f"{x}" of the values the keys and URLs are built from
Format(x) ==
    CASE x.t = "none" -> "None"
      [] x.t = "str"  -> x.v
      [] x.t = "int"  -> ToString(x.v)
      [] x.t = "bool" -> IF x.v THEN "True" ELSE "False"
      [] OTHER        -> "<repr>"

\* d.get(k, default): AttributeError when d has no get (None, a list, a number, a string)
PyGet(d, k, default) ==
    IF IsExc(d) THEN d
    ELSE IF d.t # "dict" THEN Exc("AttributeError")
    ELSE IF k \in DOMAIN d.v THEN d.v[k]
    ELSE default

(***************************************************************************)
(* Cache keys (the first statement of each endpoint).                      *)
(***************************************************************************)
RobloxStatusKey(place_id, universe_id) ==
    "place=" \o Format(place_id) \o "|universe=" \o Format(universe_id)

RobloxUniverseKey(place_id) == Format(place_id)

SteamPlayerKey(appid) == Format(appid)

SteamNewsKey(appid, count, maxlength) ==
    Format(appid) \o "|count=" \o Format(count) \o "|maxlength=" \o Format(maxlength)

EpicGamesKey(count, collection, free_only) ==
    "collection=" \o Format(collection) \o "|count=" \o Format(count)
        \o "|free_only=" \o Format(free_only)

\* (a variant with one default port for both methods)
HytaleEffectivePortOneDefault(port, method) ==
    IF port # None THEN port ELSE PyInt(HYTALE_DEFAULT_QUERY_PORT)

\* effective_port: the default depends on the method
HytaleEffectivePort(port, method) ==
    IF method = PyStr("hyquery")
    THEN (IF port # None THEN port ELSE PyInt(HYTALE_DEFAULT_GAME_PORT))
    ELSE (IF port # None THEN port ELSE PyInt(HYTALE_DEFAULT_QUERY_PORT))

HytaleKeyOf(host, effective_port, method) ==
    "host=" \o Format(host) \o "|port=" \o Format(effective_port)
        \o "|method=" \o Format(method)

HytaleKey(host, port, method) ==
    HytaleKeyOf(host, HytaleEffectivePort(port, method), method)

(***************************************************************************)
(* The endpoints, their TTL and their key.                                 *)
(***************************************************************************)
Endpoints ==
    {"roblox_status", "roblox_universe", "steam_player", "steam_news",
     "epic_games", "hytale_status"}

TTLNames ==
    {"CACHE_TTL_SECONDS", "STEAM_CACHE_TTL_SECONDS", "EPIC_CACHE_TTL_SECONDS",
     "HYTALE_CACHE_TTL_SECONDS"}

\* the TTL an endpoint adds to time.time() when it stores
TTL(e) ==
    CASE e \in {"roblox_status", "roblox_universe"} -> ttl["CACHE_TTL_SECONDS"]
      [] e \in {"steam_player", "steam_news"}       -> ttl["STEAM_CACHE_TTL_SECONDS"]
      [] e = "epic_games"                           -> ttl["EPIC_CACHE_TTL_SECONDS"]
      [] e = "hytale_status"                        -> ttl["HYTALE_CACHE_TTL_SECONDS"]

\* the provider an endpoint belongs to
Provider(e) ==
    CASE e \in {"roblox_status", "roblox_universe"} -> "roblox"
      [] e \in {"steam_player", "steam_news"}       -> "steam"
      [] e = "epic_games"                           -> "epic"
      [] e = "hytale_status"                        -> "hytale"
      [] e = "minecraft_status"                     -> "minecraft"

\* key = ... of endpoint e called with the arguments a (a tuple, in the order of the signature)
KeyOf(e, a) ==
    CASE e = "roblox_status"   -> RobloxStatusKey(a[1], a[2])
      [] e = "roblox_universe" -> RobloxUniverseKey(a[1])
      [] e = "steam_player"    -> SteamPlayerKey(a[1])
      [] e = "steam_news"      -> SteamNewsKey(a[1], a[2], a[3])
      [] e = "epic_games"      -> EpicGamesKey(a[1], a[2], a[3])
      [] e = "hytale_status"   -> HytaleKey(a[1], a[2], a[3])

(***************************************************************************)
(* Cache entries: the tuple (expires_at, value); dict.get gives None,      *)
(* written <<>> here, for a missing key.                                   *)
(***************************************************************************)
NoEntry == <<>>

CacheGet(d, key) == IF key \in DOMAIN d THEN d[key] ELSE NoEntry

\* (a variant in which a store drops the entries of the other keys)
CachePutAlone(d, key, entry) ==
    [k \in {key} |-> entry]

\* d[key] = entry: the entry is replaced wholesale
CachePut(d, key, entry) ==
    [k \in DOMAIN d \cup {key} |-> IF k = key THEN entry ELSE d[k]]

\* (a variant that takes an entry for fresh up to and including its expiry)
FreshAtExpiry(cached, now) == cached # NoEntry /\ cached[1] >= now

\* if cached and cached[0] > now
Fresh(cached, now) == cached # NoEntry /\ cached[1] > now

\* the offline or empty result an endpoint gives when its probe failed
OfflineResult(e, v) ==
    CASE e = "roblox_status"   -> ~v.is_online
      [] e = "roblox_universe" -> v.universe_id = None
      [] e = "steam_player"    -> v.player_count = None
      [] e = "steam_news"      -> v.news = <<>>
      [] e = "epic_games"      -> v.games = <<>>
      [] e = "hytale_status"   -> ~v.isOnline

\* (a variant with a negative-cache TTL of zero: a failure is not kept)
EntryFailureNotKept(t, e, result) ==
    IF OfflineResult(e, result) THEN <<t, result>> ELSE <<t + TTL(e), result>>

\* (time.time() + TTL, result)
Entry(t, e, result) == <<t + TTL(e), result>>

(***************************************************************************)
(* More of Python's semantics, as far as the probes use it.  An exception  *)
(* raised by an operand is the value of the expression.                    *)
(***************************************************************************)
\* s is a substring of u
IsSubstring(s, u) ==
    \E i \in 1..(Len(u) - Len(s) + 1) : SubSeq(u, i, i + Len(s) - 1) = s

\* k in x, for a string k
PyIn(k, x) ==
    IF IsExc(x) THEN x
    ELSE CASE x.t = "dict" -> PyBool(k \in DOMAIN x.v)
           [] x.t = "list" -> PyBool(\E i \in 1..Len(x.v) : x.v[i] = PyStr(k))
           [] x.t = "str"  -> PyBool(k = "" \/ IsSubstring(k, x.v))
           [] OTHER        -> Exc("TypeError")

\* x[k], for a string k
PyItem(x, k) ==
    IF IsExc(x) THEN x
    ELSE CASE x.t = "dict" -> (IF k \in DOMAIN x.v THEN x.v[k] ELSE Exc("KeyError"))
           [] OTHER        -> Exc("TypeError")

\* x[0]
PyItem0(x) ==
    IF IsExc(x) THEN x
    ELSE CASE x.t = "list" -> (IF x.v # <<>> THEN x.v[1] ELSE Exc("IndexError"))
           [] x.t = "str"  -> (IF x.v # "" THEN PyStr(SubSeq(x.v, 1, 1)) ELSE Exc("IndexError"))
           [] x.t = "dict" -> Exc("KeyError")
           [] OTHER        -> Exc("TypeError")

\* len(x)
PyLen(x) ==
    IF IsExc(x) THEN x
    ELSE CASE x.t = "list" -> PyInt(Len(x.v))
           [] x.t = "str"  -> PyInt(Len(x.v))
           [] x.t = "dict" -> PyInt(Cardinality(DOMAIN x.v))
           [] OTHER        -> Exc("TypeError")

\* the elements "for it in x" visits: a list's elements, a string's characters, a
\* dict's keys; TypeError for a value that is not iterable
PyIter(x) ==
    IF IsExc(x) THEN x
    ELSE CASE x.t = "list" -> x
           [] x.t = "str"  -> PyList([i \in 1..Len(x.v) |-> PyStr(SubSeq(x.v, i, i))])
           [] x.t = "dict" ->
                (LET RECURSIVE Keys(_)
                     Keys(S) == IF S = {} THEN <<>>
                                ELSE LET k == CHOOSE k \in S : TRUE
                                     IN <<PyStr(k)>> \o Keys(S \ {k})
                 IN PyList(Keys(DOMAIN x.v)))
           [] OTHER        -> Exc("TypeError")

\* the first exception among the values of a sequence, or None
FirstExc(seq) ==
    IF \E i \in 1..Len(seq) : IsExc(seq[i])
    THEN seq[CHOOSE i \in 1..Len(seq) :
                 IsExc(seq[i]) /\ \A j \in 1..(i - 1) : ~IsExc(seq[j])]
    ELSE None

(***************************************************************************)
(* Upstream HTTP: what "async with session.get(url) as response" and       *)
(* "await response.json()" give.  An upstream response is an exception     *)
(* (connection refused, DNS failure, timeout) or a status with a body; the *)
(* body is the decoded JSON value, or the exception json() raises.         *)
(***************************************************************************)
Http(status, body) == [t |-> "http", status |-> status, body |-> body]

\* data = await response.json()
ResponseJson(resp) == IF IsExc(resp) THEN resp ELSE resp.body

(***************************************************************************)
(* get_steam_player_count: the probe section.                              *)
(***************************************************************************)
SteamPlayerUrl(appid) ==
    "https://api.steampowered.com/ISteamUserStats/GetNumberOfCurrentPlayers/v1/?appid="
        \o Format(appid)

\* the try block: the result, or the exception raised in it
SteamPlayerTry(appid, resp, t) ==
    LET data == ResponseJson(resp)
        player_count == PyGet(PyGet(data, "response", EmptyDict), "player_count", None)
    IN  IF IsExc(player_count) THEN player_count
        ELSE [appid |-> appid, player_count |-> player_count, checkedAt |-> t]

\* try ... except Exception
SteamPlayerProbe(appid, resp, t) ==
    LET r == SteamPlayerTry(appid, resp, t)
    IN  IF IsExc(r) THEN [appid |-> appid, player_count |-> None, checkedAt |-> t]
        ELSE r

(***************************************************************************)
(* get_steam_news: the probe section.                                      *)
(***************************************************************************)
SteamNewsUrl(appid, count, maxlength) ==
    "https://api.steampowered.com/ISteamNews/GetNewsForApp/v2/?appid=" \o Format(appid)
        \o "&count=" \o Format(count) \o "&maxlength=" \o Format(maxlength)

\* news_item = {...} of one element of newsitems
SteamNewsItem(it) ==
    LET gid == PyGet(it, "gid", PyStr(""))
    IN  IF IsExc(gid) THEN gid
        ELSE [gid |-> PyStr(Format(gid)),
              title |-> PyGet(it, "title", None),
              url |-> PyGet(it, "url", None),
              author |-> PyGet(it, "author", None),
              contents |-> PyGet(it, "contents", None),
              date |-> PyGet(it, "date", None)]

SteamNewsTry(appid, resp, t) ==
    LET data == ResponseJson(resp)
        items == PyIter(PyGet(PyGet(data, "appnews", EmptyDict), "newsitems", PyList(<<>>)))
    IN  IF IsExc(items) THEN items
        ELSE LET news_list == [i \in 1..Len(items.v) |-> SteamNewsItem(items.v[i])]
                 e == FirstExc(news_list)
             IN  IF e # None THEN e
                 ELSE [appid |-> appid, news |-> news_list, checkedAt |-> t]

SteamNewsProbe(appid, resp, t) ==
    LET r == SteamNewsTry(appid, resp, t)
    IN  IF IsExc(r) THEN [appid |-> appid, news |-> <<>>, checkedAt |-> t]
        ELSE r

(***************************************************************************)
(* get_roblox_universe_id: the probe section.                              *)
(***************************************************************************)
RobloxUniverseUrl(place_id) ==
    "https://apis.roblox.com/universes/v1/places/" \o Format(place_id) \o "/universe"

\* result = { "universe_id": f'{data.get("universeId", None)}' }
RobloxUniverseTry(resp) ==
    LET data == ResponseJson(resp)
        u == PyGet(data, "universeId", None)
    IN  IF IsExc(u) THEN u ELSE [universe_id |-> PyStr(Format(u))]

RobloxUniverseProbe(resp) ==
    LET r == RobloxUniverseTry(resp)
    IN  IF IsExc(r) THEN [universe_id |-> None] ELSE r

(***************************************************************************)
(* get_roblox_status: the probe section, two upstream requests.            *)
(***************************************************************************)
\* if place_id and not universe_id
RobloxNeedsResolve(place_id, universe_id) == Truthy(place_id) /\ ~Truthy(universe_id)

\* universe_id = data.get("universeId", None), or the exception raised
RobloxResolveTry(resp) == PyGet(ResponseJson(resp), "universeId", None)

RobloxGamesUrl(universe_id) ==
    "https://games.roblox.com/v1/games?universeIds=" \o Format(universe_id)

RobloxOffline == [is_online |-> FALSE]

\* the second request's handling: the result, or the exception raised
RobloxGamesTry(resp) ==
    LET data == ResponseJson(resp)
        has == PyIn("data", data)
        n == PyLen(PyItem(data, "data"))
        game_data == PyItem0(PyItem(data, "data"))
        playing == PyGet(game_data, "playing", PyInt(0))
    IN  IF IsExc(has) THEN has
        ELSE IF ~has.v THEN RobloxOffline
        ELSE IF IsExc(n) THEN n
        ELSE IF ~(n.v > 0) THEN RobloxOffline
        ELSE IF IsExc(playing) THEN playing
        ELSE [is_online |-> TRUE,
              playing |-> playing,
              max_players |-> PyGet(game_data, "maxPlayers", None),
              name |-> PyGet(game_data, "name", None),
              description |-> PyGet(game_data, "description", None),
              place_id |-> PyStr(Format(PyGet(game_data, "rootPlaceId", None)))]

\* except Exception: result = {"is_online": False}
RobloxStatusExcept(r) == IF IsExc(r) THEN RobloxOffline ELSE r

(***************************************************************************)
(* ping_hytale_nitrado                                                     *)
(***************************************************************************)
HytaleNitradoUrl(host, port) ==
    "http://" \o Format(host) \o ":" \o Format(port) \o "/Nitrado/Query"

HytaleOffline == [is_online |-> FALSE]

\* players.append({...}) of one element of Players
NitradoPlayer(player) ==
    LET name == PyGet(player, "Name", PyStr("Unknown"))
    IN  IF IsExc(name) THEN name
        ELSE [name |-> name, uuid |-> PyGet(player, "UUID", None),
              world |-> PyGet(player, "World", None)]

\* the try block
NitradoTry(resp) ==
    IF IsExc(resp) THEN resp
    ELSE IF resp.status # 200 THEN HytaleOffline
    ELSE
        LET data == ResponseJson(resp)
            server_info == PyGet(data, "Server", EmptyDict)
            universe_info == PyGet(data, "Universe", EmptyDict)
            players_list == PyIter(PyGet(data, "Players", PyList(<<>>)))
            players == [i \in 1..Len(players_list.v) |-> NitradoPlayer(players_list.v[i])]
            fields == <<PyGet(server_info, "Name", None),
                        PyGet(server_info, "Version", None),
                        PyGet(universe_info, "CurrentPlayers", None),
                        PyGet(server_info, "MaxPlayers", None),
                        PyGet(universe_info, "DefaultWorld", None),
                        PyGet(server_info, "ProtocolVersion", None)>>
        IN  IF IsExc(data) THEN data
            ELSE IF IsExc(players_list) THEN players_list
            ELSE IF FirstExc(players) # None THEN FirstExc(players)
            ELSE IF FirstExc(fields) # None THEN FirstExc(fields)
            ELSE [is_online |-> TRUE,
                  server_name |-> fields[1],
                  version |-> fields[2],
                  online_players |-> fields[3],
                  max_players |-> fields[4],
                  default_world |-> fields[5],
                  players |-> players,
                  protocol_version |-> fields[6]]

\* (a variant without the except clauses)
NitradoWithoutExcept(resp) == NitradoTry(resp)

\* except asyncio.TimeoutError ... except Exception
ping_hytale_nitrado(resp) ==
    LET r == NitradoTry(resp)
    IN  IF IsExc(r) THEN HytaleOffline ELSE r

(***************************************************************************)
(* ping_hytale_hyquery.  The datagram received is a sequence of bytes; its *)
(* first eight (fewer when it is shorter) are modelled byte by byte, the   *)
(* bytes after them by what decoding and parsing them gives:               *)
(* Datagram(head, rest) is the bytes head followed by a payload rest,      *)
(* which is EmptyPayload (no bytes), an exception ("UnicodeDecodeError",   *)
(* "JSONDecodeError") or the JSON value the bytes encode.                  *)
(* do_udp_query gives a datagram, or raises (socket.timeout, OSError).     *)
(***************************************************************************)
magic_bytes == <<72, 89, 81, 85, 69, 82, 89, 0>>

EmptyPayload == [t |-> "empty"]

Datagram(head, rest) == [t |-> "bytes", head |-> head, rest |-> rest]

\* not response_data or len(response_data) < 8
DatagramTooShort(d) == d.head = <<>> \/ Len(d.head) < 8

\* (a variant that compares the seven letters and not the NUL after them)
StartsWithLetters(d) ==
    Len(d.head) >= 7 /\ SubSeq(d.head, 1, 7) = SubSeq(magic_bytes, 1, 7)

\* response_data.startswith(magic_bytes)
StartsWithMagic(d) ==
    Len(d.head) >= Len(magic_bytes)
    /\ SubSeq(d.head, 1, Len(magic_bytes)) = magic_bytes

\* json.loads(response_data[8:].decode('utf-8')): no bytes are no JSON document
HyQueryLoads(d) ==
    IF d.rest = EmptyPayload THEN Exc("JSONDecodeError") ELSE d.rest

\* the inner try block: the record built from the parsed payload
HyQueryRecord(data) ==
    LET pl_online == PyGet(PyGet(data, "players", EmptyDict), "online", None)
        pl_max == PyGet(PyGet(data, "players", EmptyDict), "max", None)
        name == PyGet(data, "name", None)
    IN  IF IsExc(name) THEN name
        ELSE IF IsExc(pl_online) THEN pl_online
        ELSE [is_online |-> TRUE,
              server_name |-> name,
              version |-> PyGet(data, "version", None),
              online_players |-> pl_online,
              max_players |-> pl_max,
              default_world |-> PyGet(data, "world", None),
              players |-> <<>>,
              protocol_version |-> PyGet(data, "protocol", None)]

\* except (json.JSONDecodeError, UnicodeDecodeError): the other exceptions pass
HyQueryInnerExcept(r) ==
    IF IsExc(r) /\ r.v \in {"JSONDecodeError", "UnicodeDecodeError"}
    THEN HytaleOffline ELSE r

\* the outer try block
HyQueryTry(resp) ==
    IF IsExc(resp) THEN resp
    ELSE IF DatagramTooShort(resp) THEN HytaleOffline
    ELSE IF ~StartsWithMagic(resp) THEN HytaleOffline
    ELSE LET data == HyQueryLoads(resp)
         IN  HyQueryInnerExcept(IF IsExc(data) THEN data ELSE HyQueryRecord(data))

\* except socket.timeout ... except Exception
ping_hytale_hyquery(resp) ==
    LET r == HyQueryTry(resp)
    IN  IF IsExc(r) THEN HytaleOffline ELSE r

(***************************************************************************)
(* get_hytale_status: the probe section (the ping, then the result).       *)
(***************************************************************************)
\* rec.get(k, default) of a dict the service itself built
RecGet(rec, k, default) == IF k \in DOMAIN rec THEN rec[k] ELSE default

HytaleUdpAddr(host, port) == "udp://" \o Format(host) \o ":" \o Format(port)

\* (a variant that queries Nitrado whatever the method)
HytaleRequestAlwaysNitrado(host, effective_port, method) ==
    HytaleNitradoUrl(host, effective_port)

\* the upstream request of the selected method
HytaleRequest(host, effective_port, method) ==
    IF method = PyStr("hyquery") THEN HytaleUdpAddr(host, effective_port)
    ELSE HytaleNitradoUrl(host, effective_port)

\* status = await ping_hytale_hyquery(...) / ping_hytale_nitrado(...)
HytalePing(method, resp) ==
    IF method = PyStr("hyquery") THEN ping_hytale_hyquery(resp)
    ELSE ping_hytale_nitrado(resp)

\* HytalePlayerInfo(name=..., uuid=..., world=...): name is a required str, uuid and
\* world are Optional[str]; pydantic raises ValidationError for a None name
HytalePlayerInfo(p) ==
    LET name == RecGet(p, "name", PyStr("Unknown"))
        uuid == RecGet(p, "uuid", None)
        world == RecGet(p, "world", None)
    IN  IF name.t # "str" THEN Exc("ValidationError")
        ELSE IF uuid.t \notin {"str", "none"} \/ world.t \notin {"str", "none"}
        THEN Exc("ValidationError")
        ELSE [name |-> name, uuid |-> uuid, world |-> world]

\* players = [...]; result = {...}: the result, or the exception raised
HytaleResult(status, t) ==
    LET ps == RecGet(status, "players", <<>>)
        players == [i \in 1..Len(ps) |-> HytalePlayerInfo(ps[i])]
    IN  IF FirstExc(players) # None THEN FirstExc(players)
        ELSE [isOnline |-> RecGet(status, "is_online", FALSE),
              serverName |-> RecGet(status, "server_name", None),
              version |-> RecGet(status, "version", None),
              onlinePlayers |-> RecGet(status, "online_players", None),
              maxPlayers |-> RecGet(status, "max_players", None),
              defaultWorld |-> RecGet(status, "default_world", None),
              players |-> players,
              protocolVersion |-> RecGet(status, "protocol_version", None),
              checkedAt |-> t]

(***************************************************************************)
(* _transform_epic_game and the probe section of get_epic_games.           *)
(***************************************************************************)
\* x == 0 (in Python False == 0 too)
PyEqZero(x) == (x.t = "int" /\ x.v = 0) \/ (x.t = "bool" /\ x.v = FALSE)

\* x[:n]
PySliceTo(x, n) ==
    LET Cut(q) == IF n >= 0
                  THEN SubSeq(q, 1, IF n < Len(q) THEN n ELSE Len(q))
                  ELSE SubSeq(q, 1, IF Len(q) + n > 0 THEN Len(q) + n ELSE 0)
    IN  IF IsExc(x) THEN x
        ELSE CASE x.t = "list" -> PyList(Cut(x.v))
               [] x.t = "str"  -> PyStr(Cut(x.v))
               [] OTHER        -> Exc("TypeError")

\* {"type": img["type"], "url": img["url"]} for the images that have both
EpicImages(imgs) ==
    LET RECURSIVE Walk(_)
        Walk(q) ==
            IF q = <<>> THEN <<>>
            ELSE LET ty == PyGet(Head(q), "type", None)
                     rest == Walk(Tail(q))
                 IN  IF IsExc(ty) THEN <<ty>>
                     ELSE IF Truthy(ty) /\ Truthy(PyGet(Head(q), "url", None))
                     THEN <<[type |-> ty, url |-> PyGet(Head(q), "url", None)]>> \o rest
                     ELSE rest
    IN  Walk(imgs)

\* (a variant in which an entry without discountPrice counts as priced 0)
EpicDiscountRawDefaultZero(game) ==
    PyGet(PyGet(PyGet(game, "price", EmptyDict), "totalPrice", EmptyDict),
          "discountPrice", PyInt(0))

\* discount_price_raw = game.get("price", {}).get("totalPrice", {}).get("discountPrice", -1)
EpicDiscountRaw(game) ==
    PyGet(PyGet(PyGet(game, "price", EmptyDict), "totalPrice", EmptyDict),
          "discountPrice", PyInt(-1))

_transform_epic_game(game) ==
    LET game_id == PyGet(game, "id", PyStr(""))
        publisher == PyGet(PyGet(game, "seller", EmptyDict), "name", None)
        offer_type == PyGet(game, "offerType", PyStr(""))
        url_type == IF offer_type = PyStr("BUNDLE") THEN "bundles" ELSE "p"
        mappings == PyGet(PyGet(game, "catalogNs", EmptyDict), "mappings", PyList(<<>>))
        slug == IF IsExc(mappings) THEN mappings
                ELSE IF Truthy(mappings) THEN PyGet(PyItem0(mappings), "pageSlug", None)
                ELSE PyGet(game, "urlSlug", PyStr(""))
        store_url == IF Truthy(slug)
                     THEN "https://store.epicgames.com/en-US/" \o url_type \o "/" \o Format(slug)
                     ELSE ""
        imgs == PyIter(PyGet(game, "keyImages", PyList(<<>>)))
        images == EpicImages(imgs.v)
        price_info == PyGet(PyGet(PyGet(game, "price", EmptyDict), "totalPrice", EmptyDict),
                            "fmtPrice", EmptyDict)
        discount_price_raw == EpicDiscountRaw(game)
        early == <<game_id, publisher, slug, imgs>>
        late == <<PyGet(price_info, "originalPrice", None), discount_price_raw>>
    IN  IF FirstExc(early) # None THEN FirstExc(early)
        ELSE IF FirstExc(images) # None THEN FirstExc(images)
        ELSE IF FirstExc(late) # None THEN FirstExc(late)
        ELSE [id |-> game_id,
              title |-> PyGet(game, "title", PyStr("Unknown")),
              publisher |-> publisher,
              description |-> PyGet(game, "description", None),
              store_url |-> store_url,
              images |-> images,
              original_price |-> PyGet(price_info, "originalPrice", None),
              current_price |-> PyGet(price_info, "discountPrice", None),
              is_free |-> PyEqZero(discount_price_raw)]

\* collection_map.get(collection, EGSCollectionType.MOST_PLAYED)
EpicCollectionType(collection) ==
    CASE collection = PyStr("most-played")         -> "MOST_PLAYED"
      [] collection = PyStr("top-sellers")         -> "TOP_SELLERS"
      [] collection = PyStr("most-popular")        -> "MOST_POPULAR"
      [] collection = PyStr("top-player-reviewed") -> "TOP_PLAYER_RATED"
      [] collection = PyStr("top-wishlisted")      -> "TOP_UPCOMING_WISHLISTED"
      [] OTHER                                     -> "MOST_PLAYED"

EpicRequest(collection) == "epicstore:get_collection:" \o EpicCollectionType(collection)

\* elements = raw.get("data", {}).get("Storefront", {})...get("collectionOffers", [])
EpicElements(raw) ==
    PyGet(PyGet(PyGet(PyGet(raw, "data", EmptyDict), "Storefront", EmptyDict),
                "collectionLayout", EmptyDict), "collectionOffers", PyList(<<>>))

\* [g for g in elements if g.get("price", {}).get("totalPrice", {}).get("discountPrice") == 0]
EpicFreeOnly(elements) ==
    LET Discount(g) == PyGet(PyGet(PyGet(g, "price", EmptyDict), "totalPrice", EmptyDict),
                             "discountPrice", None)
        it == PyIter(elements)
    IN  IF IsExc(it) THEN it
        ELSE LET ds == [i \in 1..Len(it.v) |-> Discount(it.v[i])]
             IN  IF FirstExc(ds) # None THEN FirstExc(ds)
                 ELSE PyList(SelectSeq(it.v, LAMBDA g : PyEqZero(Discount(g))))

\* the try block: count and free_only are the call's arguments, raw is what
\* api.get_collection gave (or the exception it raised)
EpicGamesTry(count, free_only, raw, t) ==
    LET elements == EpicElements(raw)
        games_raw == IF free_only.v THEN EpicFreeOnly(elements) ELSE elements
        cut == PyIter(PySliceTo(games_raw, count.v))
    IN  IF IsExc(cut) THEN cut
        ELSE LET games == [i \in 1..Len(cut.v) |-> _transform_epic_game(cut.v[i])]
             IN  IF FirstExc(games) # None THEN FirstExc(games)
                 ELSE [games |-> games, checkedAt |-> t]

EpicGamesProbe(count, free_only, raw, t) ==
    LET r == EpicGamesTry(count, free_only, raw, t)
    IN  IF IsExc(r) THEN [games |-> <<>>, checkedAt |-> t] ELSE r

(***************************************************************************)
(* The cached endpoints as a state machine.                                *)
(*                                                                         *)
(* A request r calls one endpoint once.  Its steps are the stretches of    *)
(* code between awaits:                                                    *)
(*   Call        key, now, the lock-free read; then either the return of   *)
(*               the fresh entry, or "async with lock" (taken at once when *)
(*               the lock is free, else the request queues)                *)
(*   Acquire     the queued request gets the lock: the re-check, then the  *)
(*               return of the fresh entry or the first upstream request   *)
(*   ResolveDone get_roblox_status only: the place-to-universe answer      *)
(*   ProbeDone   the upstream answer: the result, the store, the return    *)
(*   Tick        time passes                                               *)
(***************************************************************************)
\* the requests of a behaviour
Requests == DOMAIN call

\* the configurations of the four TTLs
TTLValues == {-1, 0, 1}
TTLConfigs == {[n \in TTLNames |-> v] : v \in TTLValues}

\* the arguments the requests are drawn from
CallArgs(e) ==
    CASE e = "roblox_status"   -> {<<PyStr("1"), None>>, <<None, PyStr("7")>>}
      [] e = "roblox_universe" -> {<<PyInt(1)>>}
      [] e = "steam_player"    -> {<<PyInt(440)>>, <<PyInt(570)>>}
      [] e = "steam_news"      -> {<<PyInt(440), PyInt(10), PyInt(300)>>}
      [] e = "epic_games"      -> {<<PyInt(1), PyStr("most-played"), PyBool(FALSE)>>}
      [] e = "hytale_status"   -> {<<PyStr("h"), None, PyStr("nitrado")>>,
                                   <<PyStr("h"), PyInt(5523), PyStr("nitrado")>>,
                                   <<PyStr("h"), None, PyStr("hyquery")>>}

\* an upstream failure of an HTTP request
HttpFailure == Exc("ClientConnectorError")

\* the upstream answers the requests are given
PlaceAnswers ==
    {HttpFailure, Http(200, EmptyDict), Http(200, PyDict([universeId |-> PyInt(7)]))}

GamesAnswers ==
    {HttpFailure,
     Http(200, PyDict([data |-> PyList(<<PyDict([playing |-> PyInt(3)])>>)]))}

NitradoAnswers ==
    {HttpFailure,
     Http(200, PyDict([Server |-> PyDict([Name |-> PyStr("X")])])),
     Http(200, PyDict([Players |-> PyList(<<PyDict([Name |-> None])>>)]))}

HyQueryAnswers ==
    {Exc("timeout"), Datagram(magic_bytes, PyDict([name |-> PyStr("X")]))}

EpicGame(price) == PyDict([id |-> PyStr("g"), price |-> PyDict([totalPrice |->
                               PyDict([discountPrice |-> PyInt(price)])])])

EpicRaw(games) == PyDict([data |-> PyDict([Storefront |-> PyDict([collectionLayout |->
                               PyDict([collectionOffers |-> PyList(games)])])])])

Answers(e, method) ==
    CASE e = "roblox_status"   -> GamesAnswers
      [] e = "roblox_universe" -> PlaceAnswers
      [] e = "steam_player"    ->
            {HttpFailure,
             Http(200, PyDict([response |-> PyDict([player_count |-> PyInt(5)])]))}
      [] e = "steam_news"      ->
            {HttpFailure,
             Http(200, PyDict([appnews |-> PyDict([newsitems |->
                                   PyList(<<PyDict([gid |-> PyInt(9)])>>)])]))}
      [] e = "epic_games"      -> {Exc("EGSException"), EpicRaw(<<EpicGame(0)>>)}
      [] e = "hytale_status"   ->
            IF method = PyStr("hyquery") THEN HyQueryAnswers ELSE NitradoAnswers

NoRet == [t |-> "noret"]

NoTime == 0 - 1

\* A request's record: its position pc, the endpoint ep and its arguments, the
\* locals key, now, cached and universe_id, and what the request did: the entry the
\* lock-free read saw (seen0), the time of the key's latest store when it arrived
\* (at0), the requests in flight when it arrived (conc), the upstream requests it
\* sent and the answers it got, what it returned or raised (ret), by which path
\* (via: "fast", "recheck", "probe") and when (done_at)
IdleCall ==
    [pc |-> "idle", ep |-> "", args |-> <<>>, key |-> "", now |-> 0,
     cached |-> NoEntry, universe_id |-> None,
     seen0 |-> NoEntry, at0 |-> NoTime, conc |-> {}, sent |-> <<>>, got |-> <<>>,
     ret |-> NoRet, via |-> "", done_at |-> NoTime]

InFlight(r) == call[r].pc \in {"waiting", "resolving", "probing"}
Finished(r) == call[r].pc \in {"done", "raised"}
Probing(r) == call[r].pc \in {"resolving", "probing"}
\* the request invoked the upstream probe
Probed(r) == call[r].sent # <<>>
Stored(r) == call[r].pc = "done" /\ call[r].via = "probe"

\* the time of the latest store under key of endpoint e, NoTime when there is none
LastStore(e, key) ==
    LET S == {call[q].done_at : q \in {q \in Requests :
                   Stored(q) /\ call[q].ep = e /\ call[q].key = key}}
    IN  IF S = {} THEN NoTime ELSE CHOOSE t \in S : \A u \in S : u <= t

\* the upstream request an endpoint sends first, once it decided to probe
FirstRequest(e, a) ==
    CASE e = "roblox_status"   ->
            (IF RobloxNeedsResolve(a[1], a[2]) THEN RobloxUniverseUrl(a[1])
             ELSE RobloxGamesUrl(a[2]))
      [] e = "roblox_universe" -> RobloxUniverseUrl(a[1])
      [] e = "steam_player"    -> SteamPlayerUrl(a[1])
      [] e = "steam_news"      -> SteamNewsUrl(a[1], a[2], a[3])
      [] e = "epic_games"      -> EpicRequest(a[2])
      [] e = "hytale_status"   ->
            HytaleRequest(a[1], HytaleEffectivePort(a[2], a[3]), a[3])

\* the result of the probe section, or the exception that leaves the endpoint
ProbeResult(e, a, resp, t) ==
    CASE e = "roblox_status"   -> RobloxStatusExcept(RobloxGamesTry(resp))
      [] e = "roblox_universe" -> RobloxUniverseProbe(resp)
      [] e = "steam_player"    -> SteamPlayerProbe(a[1], resp, t)
      [] e = "steam_news"      -> SteamNewsProbe(a[1], resp, t)
      [] e = "epic_games"      -> EpicGamesProbe(a[1], a[3], resp, t)
      [] e = "hytale_status"   -> HytaleResult(HytalePing(a[3], resp), t)

\* no key built, no probe function run
NoKeys == [ep |-> "", a |-> <<>>, b |-> <<>>, built |-> FALSE]
NoProbe == [fn |-> "", done |-> FALSE]
NoPing == [pc |-> "idle"]

\* the service before its first request
Idle ==
    /\ clock = 0
    /\ cache = [e \in Endpoints |-> [k \in {} |-> NoEntry]]
    /\ lock = [e \in Endpoints |-> 0]
    /\ waiters = [e \in Endpoints |-> <<>>]
    /\ call = [r \in 1..MaxCalls |-> IdleCall]

Init ==
    /\ Idle
    /\ ttl \in TTLConfigs
    /\ keys = NoKeys
    /\ probe = NoProbe
    /\ mc = NoPing

\* time passes (between any two steps, as long as a request is still to come or
\* to finish)
Tick ==
    /\ clock < MaxTime
    /\ \E r \in Requests : ~Finished(r)
    /\ clock' = clock + 1
    /\ UNCHANGED <<ttl, cache, lock, waiters, call, keys, probe, mc>>

\* the code under "async with lock", up to its first await, of the request with
\* locals c: the re-check against the now read before the lock, then the return of
\* the entry (the lock is released) or the first upstream request (the lock is kept)
UnderLock(r, c) ==
    LET cached == CacheGet(cache[c.ep], c.key)
    IN  IF Fresh(cached, c.now)
        THEN /\ call' = [call EXCEPT ![r] =
                   [c EXCEPT !.pc = "done", !.cached = cached, !.ret = cached[2],
                             !.via = "recheck", !.done_at = clock]]
             /\ lock' = [lock EXCEPT ![c.ep] = 0]
        ELSE /\ call' = [call EXCEPT ![r] =
                   [c EXCEPT !.pc = IF c.ep = "roblox_status"
                                       /\ RobloxNeedsResolve(c.args[1], c.args[2])
                                    THEN "resolving" ELSE "probing",
                             !.cached = cached,
                             !.universe_id = IF c.ep = "roblox_status" THEN c.args[2]
                                             ELSE None,
                             !.sent = <<FirstRequest(c.ep, c.args)>>]]
             /\ lock' = [lock EXCEPT ![c.ep] = r]

\* (a variant in which the fresh entry is returned only while the lock is free: a
\* caller that finds the lock held queues for it)
CallBehindLock(r, e, a) ==
    /\ call[r].pc = "idle"
    /\ \A q \in 1..(r - 1) : call[q].pc # "idle" /\ Provider(call[q].ep) = Provider(e)
    /\ LET key == KeyOf(e, a)
           now == clock
           cached == CacheGet(cache[e], key)
           c == [IdleCall EXCEPT !.ep = e, !.args = a, !.key = key, !.now = now,
                                 !.cached = cached, !.seen0 = cached,
                                 !.at0 = LastStore(e, key),
                                 !.conc = {q \in Requests : InFlight(q)}]
       IN  IF lock[e] = 0 /\ waiters[e] = <<>>
           THEN IF Fresh(cached, now)
                THEN /\ call' = [call EXCEPT ![r] =
                           [c EXCEPT !.pc = "done", !.ret = cached[2], !.via = "fast",
                                     !.done_at = clock]]
                     /\ UNCHANGED <<lock, waiters>>
                ELSE /\ UnderLock(r, c)
                     /\ UNCHANGED waiters
           ELSE /\ call' = [call EXCEPT ![r] = [c EXCEPT !.pc = "waiting"]]
                /\ waiters' = [waiters EXCEPT ![e] = Append(@, r)]
                /\ UNCHANGED lock
    /\ UNCHANGED <<clock, ttl, cache, keys, probe, mc>>

\* a request arrives: endpoint e is called with the arguments a.  Requests arrive
\* in the order of their numbers, and the requests of one behaviour go to the
\* endpoints of one provider (the providers share no state but the clock)
Call(r, e, a) ==
    /\ call[r].pc = "idle"
    /\ \A q \in 1..(r - 1) : call[q].pc # "idle" /\ Provider(call[q].ep) = Provider(e)
    /\ LET key == KeyOf(e, a)
           now == clock
           cached == CacheGet(cache[e], key)
           c == [IdleCall EXCEPT !.ep = e, !.args = a, !.key = key, !.now = now,
                                 !.cached = cached, !.seen0 = cached,
                                 !.at0 = LastStore(e, key),
                                 !.conc = {q \in Requests : InFlight(q)}]
       IN  IF Fresh(cached, now)
           THEN /\ call' = [call EXCEPT ![r] =
                      [c EXCEPT !.pc = "done", !.ret = cached[2], !.via = "fast",
                                !.done_at = clock]]
                /\ UNCHANGED <<lock, waiters>>
           ELSE IF lock[e] = 0 /\ waiters[e] = <<>>
           THEN /\ UnderLock(r, c)
                /\ UNCHANGED waiters
           ELSE /\ call' = [call EXCEPT ![r] = [c EXCEPT !.pc = "waiting"]]
                /\ waiters' = [waiters EXCEPT ![e] = Append(@, r)]
                /\ UNCHANGED lock
    /\ UNCHANGED <<clock, ttl, cache, keys, probe, mc>>

\* (a variant in which the queued request does not wait for the lock to be free)
AcquireWithoutWaiting(r) ==
    /\ call[r].pc = "waiting"
    /\ waiters[call[r].ep] # <<>>
    /\ Head(waiters[call[r].ep]) = r
    /\ waiters' = [waiters EXCEPT ![call[r].ep] = Tail(@)]
    /\ UnderLock(r, call[r])
    /\ UNCHANGED <<clock, ttl, cache, keys, probe, mc>>

\* the lock is free and r is the first in its queue
Acquire(r) ==
    /\ call[r].pc = "waiting"
    /\ lock[call[r].ep] = 0
    /\ waiters[call[r].ep] # <<>>
    /\ Head(waiters[call[r].ep]) = r
    /\ waiters' = [waiters EXCEPT ![call[r].ep] = Tail(@)]
    /\ UnderLock(r, call[r])
    /\ UNCHANGED <<clock, ttl, cache, keys, probe, mc>>

\* cache[key] = (time.time() + TTL, result); return result (the lock is released)
StoreAndReturn(r, resp, result) ==
    LET c == call[r]
    IN  /\ cache' = [cache EXCEPT ![c.ep] = CachePut(@, c.key, Entry(clock, c.ep, result))]
        /\ call' = [call EXCEPT ![r] = [c EXCEPT !.pc = "done", !.ret = result,
                                                  !.via = "probe", !.got = Append(@, resp),
                                                  !.done_at = clock]]
        /\ lock' = [lock EXCEPT ![c.ep] = 0]

\* (a variant in which an exception leaves the endpoint with the lock still held)
RaiseOutKeepingLock(r, resp, exc) ==
    /\ call' = [call EXCEPT ![r] = [@ EXCEPT !.pc = "raised", !.ret = exc,
                                              !.got = Append(@, resp),
                                              !.done_at = clock]]
    /\ UNCHANGED <<cache, lock>>

\* an exception leaves the endpoint: "async with" releases the lock, nothing is stored
RaiseOut(r, resp, exc) ==
    /\ call' = [call EXCEPT ![r] = [@ EXCEPT !.pc = "raised", !.ret = exc,
                                              !.got = Append(@, resp),
                                              !.done_at = clock]]
    /\ lock' = [lock EXCEPT ![call[r].ep] = 0]
    /\ UNCHANGED cache

\* (a variant that returns the offline result of an unresolved place without
\* storing it)
ResolveDoneWithoutStore(r) ==
    /\ call[r].pc = "resolving"
    /\ \E resp \in PlaceAnswers :
       LET u == RobloxResolveTry(resp)
       IN  IF IsExc(u) THEN StoreAndReturn(r, resp, RobloxStatusExcept(u))
           ELSE IF u = None
           THEN /\ call' = [call EXCEPT ![r] =
                      [@ EXCEPT !.pc = "done", !.ret = RobloxOffline, !.via = "probe",
                                !.got = Append(@, resp), !.done_at = clock]]
                /\ lock' = [lock EXCEPT ![call[r].ep] = 0]
                /\ UNCHANGED cache
           ELSE /\ call' = [call EXCEPT ![r] =
                      [@ EXCEPT !.pc = "probing", !.universe_id = u,
                                !.sent = Append(@, RobloxGamesUrl(u)),
                                !.got = Append(@, resp)]]
                /\ UNCHANGED <<cache, lock>>
    /\ UNCHANGED <<clock, ttl, waiters, keys, probe, mc>>

\* get_roblox_status: the answer to the place-to-universe request
ResolveDone(r) ==
    /\ call[r].pc = "resolving"
    /\ \E resp \in PlaceAnswers :
       LET u == RobloxResolveTry(resp)
       IN  IF IsExc(u) THEN StoreAndReturn(r, resp, RobloxStatusExcept(u))
           ELSE IF u = None THEN StoreAndReturn(r, resp, RobloxOffline)
           ELSE /\ call' = [call EXCEPT ![r] =
                      [@ EXCEPT !.pc = "probing", !.universe_id = u,
                                !.sent = Append(@, RobloxGamesUrl(u)),
                                !.got = Append(@, resp)]]
                /\ UNCHANGED <<cache, lock>>
    /\ UNCHANGED <<clock, ttl, waiters, keys, probe, mc>>

\* the answer to the (last) upstream request
ProbeDone(r) ==
    /\ call[r].pc = "probing"
    /\ \E resp \in Answers(call[r].ep, IF call[r].ep = "hytale_status"
                                        THEN call[r].args[3] ELSE None) :
          LET result == ProbeResult(call[r].ep, call[r].args, resp, clock)
          IN  IF IsExc(result) THEN RaiseOut(r, resp, result)
              ELSE StoreAndReturn(r, resp, result)
    /\ UNCHANGED <<clock, ttl, waiters, keys, probe, mc>>

Next ==
    \/ Tick
    \/ \E r \in Requests, e \in Endpoints : \E a \in CallArgs(e) : Call(r, e, a)
    \/ \E r \in Requests : Acquire(r)
    \/ \E r \in Requests : ResolveDone(r)
    \/ \E r \in Requests : ProbeDone(r)

Spec == Init /\ [][Next]_vars

(***************************************************************************)
(* The claims about the cache.                                             *)
(***************************************************************************)
Started(r) == call[r].pc # "idle"
TTLOf(r) == TTL(call[r].ep)
SameKey(r, q) == call[r].ep = call[q].ep /\ call[r].key = call[q].key
\* r and q were in flight at the same time
Concurrent(r, q) == r \in call[q].conc \/ q \in call[r].conc
\* r had returned or raised when q arrived
Before(r, q) == r < q /\ r \notin call[q].conc
\* the probe of r failed: its last upstream request raised
FailedProbe(r) == call[r].got # <<>> /\ IsExc(call[r].got[Len(call[r].got)])

\* q and the callers of the same key that were in flight with q, all of which
\* found no entry for the key when they arrived
C1_Group(q) ==
    {q} \cup {r \in Requests : r # q /\ Concurrent(r, q) /\ SameKey(r, q)
                               /\ call[r].seen0 = NoEntry}

\* C1: when N callers call an endpoint concurrently with the same key while the
\* cache holds no entry for it (caching enabled: TTL > 0), the probe is invoked
\* exactly once in total and all N callers return the identical value.
C1_OneProbeForConcurrentCallers ==
    \A q \in Requests :
        (/\ Started(q) /\ call[q].seen0 = NoEntry /\ TTLOf(q) > 0
         /\ \A r \in C1_Group(q) : Finished(r))
        => /\ Cardinality({r \in C1_Group(q) : Probed(r)}) = 1
           /\ \A r \in C1_Group(q) : call[r].pc = "done" /\ call[r].ret = call[q].ret

\* The statement of C1 for the five endpoints other than get_hytale_status, whose
\* probe section can raise after the probe (HytalePlayerInfo).
C1_HoldsButForHytale ==
    \A q \in Requests :
        (/\ Started(q) /\ call[q].seen0 = NoEntry /\ TTLOf(q) > 0
         /\ call[q].ep # "hytale_status"
         /\ \A r \in C1_Group(q) : Finished(r))
        => /\ Cardinality({r \in C1_Group(q) : Probed(r)}) = 1
           /\ \A r \in C1_Group(q) : call[r].pc = "done" /\ call[r].ret = call[q].ret

\* C2 as stated: with a TTL of T > 0, two calls for the same key separated by less
\* than T (arrival to arrival) invoke the probe at most once, and two calls
\* separated by T or more invoke it again: the second call re-probes.
C2_SeparationDecidesReprobe ==
    \A r, q \in Requests :
        (r < q /\ Finished(r) /\ Finished(q) /\ SameKey(r, q) /\ TTLOf(r) > 0)
        => /\ call[q].now - call[r].now < TTLOf(r) => ~(Probed(r) /\ Probed(q))
           /\ call[q].now - call[r].now >= TTLOf(r) => Probed(q)

\* C2 amended: the T seconds run from the store of the entry, not from the arrival
\* of the call that probed.  With T > 0, a call that arrives less than T after the
\* key's latest store returns the stored value on the lock-free path, without a
\* probe; a call that arrives T or more after the latest store (or when nothing
\* is stored) does not return on the lock-free path: it takes the gate and probes,
\* unless its re-check finds an entry a racing caller stored meanwhile.
C2_StoreTimeDecidesReprobe ==
    \A q \in Requests :
        (Finished(q) /\ TTLOf(q) > 0)
        => /\ (call[q].at0 # NoTime /\ call[q].now - call[q].at0 < TTLOf(q))
                => /\ call[q].pc = "done" /\ call[q].via = "fast" /\ ~Probed(q)
                   /\ call[q].ret = call[q].seen0[2]
           /\ (call[q].at0 = NoTime \/ call[q].now - call[q].at0 >= TTLOf(q))
                => /\ call[q].via # "fast"
                   /\ Probed(q) \/ (call[q].via = "recheck"
                                    /\ call[q].cached # call[q].seen0)

\* a call served from the cache although it arrived T or more after the arrival of
\* the call whose probe stored the entry (the probe was slow)
C2_Witness ==
    \E r, q \in Requests :
        /\ Before(r, q) /\ SameKey(r, q) /\ Stored(r) /\ TTLOf(r) > 0
        /\ call[q].pc = "done" /\ call[q].via = "fast" /\ call[q].ret = call[r].ret
        /\ call[q].now - call[r].now >= TTLOf(r)

\* C3: for each gate at most one upstream probe guarded by it is in flight, and
\* the request probing is the one holding the gate.
C3_OneProbePerGate ==
    \A e \in Endpoints :
        /\ Cardinality({r \in Requests : call[r].ep = e /\ Probing(r)}) <= 1
        /\ \A r \in Requests : (call[r].ep = e /\ Probing(r)) => lock[e] = r

\* one request probes while another, for a different key, waits on the same gate
C3_Witness ==
    \E r, q \in Requests :
        /\ call[r].ep = call[q].ep /\ call[r].key # call[q].key
        /\ Probing(r) /\ call[q].pc = "waiting"

\* C4: with a TTL of 0 or less caching is disabled: every call invokes the probe
\* (none returns a value another call's probe produced), and the probes stay
\* serialized by the gate.
C4_NoCachingWithoutTTL ==
    /\ \A r \in Requests : (Finished(r) /\ TTLOf(r) <= 0) => Probed(r)
    /\ C3_OneProbePerGate

UnresolvedPlace(r) ==
    /\ call[r].ep = "roblox_status" /\ Finished(r)
    /\ Truthy(call[r].args[1]) /\ call[r].args[2] = None
    /\ call[r].got # <<>>
    /\ RobloxResolveTry(call[r].got[1]) = None

\* C11: a Roblox status call with only a place_id whose resolution yields no
\* universe id returns {is_online: false} after the one place-to-universe request,
\* stores it under its key with expiry = store time + TTL, and every later call
\* with the same key that arrives before that expiry returns the same result
\* without an upstream request.
C11_UnresolvedPlaceIsCachedOffline ==
    /\ \A r \in Requests :
          UnresolvedPlace(r)
          => /\ call[r].pc = "done" /\ call[r].ret = [is_online |-> FALSE]
             /\ Len(call[r].sent) = 1 /\ Len(call[r].got) = 1
             /\ call[r].key \in DOMAIN cache["roblox_status"]
             /\ \/ cache["roblox_status"][call[r].key]
                      = <<call[r].done_at + ttl["CACHE_TTL_SECONDS"], [is_online |-> FALSE]>>
                \/ \E q \in Requests :
                      /\ q # r /\ Stored(q) /\ SameKey(r, q)
                      /\ call[q].done_at >= call[r].done_at
    /\ \A r, q \in Requests :
          (/\ UnresolvedPlace(r) /\ Before(r, q) /\ SameKey(r, q) /\ Finished(q)
           /\ call[q].now < call[r].done_at + ttl["CACHE_TTL_SECONDS"])
          => /\ call[q].pc = "done" /\ call[q].sent = <<>>
             /\ call[q].ret = [is_online |-> FALSE]

\* a later call is served the offline result of an unresolved place from the cache
C11_Witness ==
    \E r, q \in Requests :
        /\ UnresolvedPlace(r) /\ call[r].got[1] = Http(200, EmptyDict)
        /\ Before(r, q) /\ SameKey(r, q)
        /\ call[q].pc = "done" /\ call[q].via = "fast" /\ call[q].sent = <<>>
        /\ call[q].ret = [is_online |-> FALSE]

\* r is a call of get_roblox_status with a place id only
PlaceOnly(r) ==
    call[r].ep = "roblox_status" /\ RobloxNeedsResolve(call[r].args[1], call[r].args[2])

\* C12: for a Roblox status call with only a place id the place-to-universe
\* resolution is a cached sub-lookup: while the universe cache holds a fresh entry
\* for the place id the status probe sends no place-to-universe request, and a
\* resolution the status probe performed is stored in the universe cache.
C12_ResolutionIsCachedSubLookup ==
    /\ \A q, r \in Requests :
          (/\ call[q].ep = "roblox_universe" /\ Stored(q)
           /\ PlaceOnly(r) /\ RobloxUniverseKey(call[r].args[1]) = call[q].key
           /\ Before(q, r) /\ call[r].conc = {}
           /\ call[r].now < call[q].done_at + ttl["CACHE_TTL_SECONDS"])
          => RobloxUniverseUrl(call[r].args[1])
                \notin {call[r].sent[i] : i \in 1..Len(call[r].sent)}
    /\ \A r \in Requests :
          (/\ PlaceOnly(r) /\ call[r].got # <<>>
           /\ ~IsExc(RobloxResolveTry(call[r].got[1]))
           /\ RobloxResolveTry(call[r].got[1]) # None)
          => RobloxUniverseKey(call[r].args[1]) \in DOMAIN cache["roblox_universe"]

\* C15: whenever a cached endpoint returns a value without invoking the probe (on
\* the lock-free fast path or on the re-check made under the gate), the returned
\* entry is fresh at the moment of that check: the time of the check is strictly
\* less than the entry's expires_at, even if the caller waited on the gate for
\* longer than the TTL.
C15_ReturnedEntryFreshAtCheck ==
    \A r \in Requests :
        (call[r].pc = "done" /\ call[r].via \in {"fast", "recheck"})
        => call[r].done_at < call[r].cached[1]

\* The statement of C15 for the lock-free fast path alone.
C15_FastPathFresh ==
    \A r \in Requests :
        (call[r].pc = "done" /\ call[r].via = "fast")
        => call[r].done_at < call[r].cached[1]

\* r's store is the latest one under its key
C17_LatestStore(r) ==
    \A q \in Requests :
        (q # r /\ Stored(q) /\ SameKey(q, r)) => call[q].done_at < call[r].done_at

\* C17: every call that invoked the probe under the gate stores an entry
\* {expires_at = time of store + TTL, value = the returned result} for its key
\* before the gate is released, for every record the probe can return; in
\* particular get_hytale_status stores an entry after every completed
\* ping_hytale_nitrado or ping_hytale_hyquery call, including when the upstream
\* player list contains entries with null or missing names.
C17_EveryProbeIsStored ==
    \A r \in Requests :
        (Probed(r) /\ Finished(r))
        => /\ Stored(r)
           /\ call[r].key \in DOMAIN cache[call[r].ep]
           /\ C17_LatestStore(r)
                 => cache[call[r].ep][call[r].key]
                       = <<call[r].done_at + TTLOf(r), call[r].ret>>

\* The statement of C17 for the five endpoints other than get_hytale_status.
C17_HoldsButForHytale ==
    \A r \in Requests :
        (Probed(r) /\ Finished(r) /\ call[r].ep # "hytale_status")
        => /\ Stored(r)
           /\ call[r].key \in DOMAIN cache[call[r].ep]
           /\ C17_LatestStore(r)
                 => cache[call[r].ep][call[r].key]
                       = <<call[r].done_at + TTLOf(r), call[r].ret>>

\* C20: cache entries are never removed and only ever replaced wholesale: in every
\* step each cache map keeps every key it had, and (the TTL being fixed) the
\* expires_at stored for a key never decreases across successive refreshes.
C20_EntriesKeptAndExpiryGrows ==
    [][\A e \in Endpoints :
          \A k \in DOMAIN cache[e] :
              /\ k \in DOMAIN cache'[e]
              /\ cache'[e][k][1] >= cache[e][k][1]]_vars

\* a key was stored by one call and refreshed later by another: its entry holds
\* the later expiry and the later result
C20_Witness ==
    \E r, q \in Requests :
        /\ Stored(r) /\ Stored(q) /\ SameKey(r, q)
        /\ call[r].done_at < call[q].done_at
        /\ cache[call[q].ep][call[q].key] = <<call[q].done_at + TTLOf(q), call[q].ret>>
        /\ call[r].done_at + TTLOf(r) < call[q].done_at + TTLOf(q)

(***************************************************************************)
(* One gate under load: get_steam_news called for two applications by one  *)
(* request more than elsewhere, the TTL set to one second.                 *)
(***************************************************************************)
GateArgs == {<<PyInt(440), PyInt(10), PyInt(300)>>, <<PyInt(570), PyInt(10), PyInt(300)>>}

InitGate ==
    /\ clock = 0
    /\ cache = [e \in Endpoints |-> [k \in {} |-> NoEntry]]
    /\ lock = [e \in Endpoints |-> 0]
    /\ waiters = [e \in Endpoints |-> <<>>]
    /\ call = [r \in 1..(MaxCalls + 1) |-> IdleCall]
    /\ ttl = [n \in TTLNames |-> 1]
    /\ keys = NoKeys
    /\ probe = NoProbe
    /\ mc = NoPing

NextGate ==
    \/ Tick
    \/ \E r \in Requests : \E a \in GateArgs : Call(r, "steam_news", a)
    \/ \E r \in Requests : Acquire(r)
    \/ \E r \in Requests : ProbeDone(r)

SpecGate == InitGate /\ [][NextGate]_vars

\* C16: a caller whose key has a fresh entry returns that entry's value without
\* acquiring or waiting on the gate, whoever holds it: the step in which the caller
\* arrives is the step in which it returns, and it leaves the gate and its queue
\* as they were, even while another caller holds the same gate and is in the
\* middle of an upstream probe for a different key.
C16_FastPathIgnoresGate ==
    [][\A r \in Requests :
          (/\ call[r].pc = "idle" /\ call'[r].pc # "idle"
           /\ Fresh(CacheGet(cache[call'[r].ep], call'[r].key), clock))
          => /\ call'[r].pc = "done" /\ call'[r].via = "fast"
             /\ call'[r].ret = CacheGet(cache[call'[r].ep], call'[r].key)[2]
             /\ lock' = lock /\ waiters' = waiters /\ cache' = cache /\ clock' = clock]_vars

\* q, arriving at a free gate, took it and is still probing for its key; r arrived
\* after q, found the fresh entry of another key and has returned it
C16_Witness ==
    \E q, r \in Requests :
        /\ q < r /\ call[q].ep = call[r].ep /\ call[q].key # call[r].key
        /\ call[q].conc = {} /\ Probing(q) /\ lock[call[q].ep] = q
        /\ call[r].conc = {q}
        /\ call[r].pc = "done" /\ call[r].via = "fast" /\ ~Probed(r)
        /\ call[r].ret = cache[call[r].ep][call[r].key][2]

(***************************************************************************)
(* The cached endpoints under a fair scheduler.  The event loop runs every *)
(* coroutine that is ready: a request whose upstream answer is due gets it *)
(* (aiohttp's ClientTimeout, the UDP socket timeout and the thread of      *)
(* api.get_collection end every probe), and the first request queued on a  *)
(* free lock is woken.  No arrival and no passing of time is required.     *)
(*                                                                         *)
(* In SpecLive the requests are served while the clock stands still: with  *)
(* a TTL of 1 a stored entry is fresh for every later read, with a TTL of  *)
(* 0 or -1 no entry ever is, so each test of freshness goes both ways.     *)
(* SpecLiveTimed lets time pass as Spec does.                              *)
(***************************************************************************)
Fairness ==
    \A r \in 1..MaxCalls :
        /\ WF_vars(Acquire(r))
        /\ WF_vars(ResolveDone(r))
        /\ WF_vars(ProbeDone(r))

NextLive ==
    \/ \E r \in Requests, e \in Endpoints : \E a \in CallArgs(e) : Call(r, e, a)
    \/ \E r \in Requests : Acquire(r)
    \/ \E r \in Requests : ResolveDone(r)
    \/ \E r \in Requests : ProbeDone(r)

SpecLive == Init /\ [][NextLive]_vars /\ Fairness

SpecLiveTimed == Init /\ [][Next]_vars /\ Fairness

\* no request is inside the critical section of endpoint e
C21_GateUnused(e) == \A r \in Requests : ~(call[r].ep = e /\ Probing(r))

\* C21: assuming every upstream probe terminates (by success, failure or its
\* fixed timeout) and the scheduler is fair, every call to a cached endpoint
\* eventually returns or raises, and whenever no call is executing inside a
\* gate's critical section that gate is free: the gate is released on every exit
\* path (the early return on the re-check, the return after storing, an exception
\* raised inside the critical section).
C21_CallsEndAndGateIsReleased ==
    /\ [](\A e \in Endpoints : C21_GateUnused(e) => lock[e] = 0)
    /\ \A r \in 1..MaxCalls :
          (call[r].pc # "idle") ~> (call[r].pc \in {"done", "raised"})

\* a request raised inside the critical section while another waited on the same
\* gate; the gate was released, the waiting request got it and has ended, and the
\* gate is free
C21_Witness ==
    \E r, q \in Requests :
        /\ call[r].pc = "raised" /\ call[r].ep = call[q].ep
        /\ r \in call[q].conc /\ call[q].via # "fast"
        /\ Finished(q) /\ Probed(q)
        /\ lock[call[r].ep] = 0 /\ waiters[call[r].ep] = <<>>

\* request r returns or raises in this step
C22_Ends(r) == ~Finished(r) /\ call'[r].pc \in {"done", "raised"}

\* this step leaves every cache map as it was, but for the entry of r's key in the
\* map of r's endpoint
C22_OnlyOwnEntry(r) ==
    /\ \A e \in Endpoints \ {call'[r].ep} : cache'[e] = cache[e]
    /\ \A k \in DOMAIN cache'[call'[r].ep] \ {call'[r].key} :
          /\ k \in DOMAIN cache[call'[r].ep]
          /\ cache'[call'[r].ep][k] = cache[call'[r].ep][k]
    /\ DOMAIN cache[call'[r].ep] \subseteq DOMAIN cache'[call'[r].ep]

\* this step writes the entry of r's key in the map of r's endpoint, r holding the
\* map's gate
C22_WritesOwnEntry(r) ==
    /\ call'[r].pc = "done" /\ call'[r].via = "probe"
    /\ lock[call'[r].ep] = r
    /\ call'[r].key \in DOMAIN cache'[call'[r].ep]
    /\ cache'[call'[r].ep][call'[r].key] = <<clock + TTL(call'[r].ep), call'[r].ret>>

\* C22: a call that returns a cached value (fast path or re-check hit) leaves
\* every cache map unchanged, and a call that probes writes exactly one entry, for
\* its own key in its own endpoint's cache map and only while holding that map's
\* gate; no endpoint ever writes another endpoint's cache map (and no step but the
\* end of a call that probed changes a cache map).
C22_FrameOfACall ==
    [][/\ \A r \in Requests :
             C22_Ends(r)
             => /\ call'[r].via \in {"fast", "recheck"} => cache' = cache
                /\ call'[r].sent # <<>> => C22_WritesOwnEntry(r) /\ C22_OnlyOwnEntry(r)
       /\ cache' # cache
             => \E r \in Requests : C22_Ends(r) /\ call'[r].sent # <<>>]_vars

\* The statement of C22 with "exactly one entry" read as "at most one": a call
\* that probes and returns writes the entry of its own key under the gate, a call
\* whose probe section raises writes none, and either leaves every other entry of
\* every cache map as it was.
C22_FrameButForRaise ==
    [][/\ \A r \in Requests :
             C22_Ends(r)
             => /\ call'[r].via \in {"fast", "recheck"} => cache' = cache
                /\ (call'[r].sent # <<>> /\ call'[r].pc = "done")
                      => C22_WritesOwnEntry(r) /\ C22_OnlyOwnEntry(r)
                /\ call'[r].pc = "raised" => cache' = cache /\ lock[call'[r].ep] = r
       /\ cache' # cache
             => \E r \in Requests : C22_Ends(r) /\ call'[r].sent # <<>>]_vars

(***************************************************************************)
(* The cache keys: two requests of one endpoint, the key each is given,    *)
(* the upstream probe each stands for, and the endpoint's cache dict after *)
(* a result has been stored for each.                                      *)
(***************************************************************************)
\* the arguments the two requests are drawn from (a query parameter that is left
\* out is None; a str parameter takes any text, "None" and text with '|' included)
KeyArgs(e) ==
    CASE e = "roblox_status"   ->
            {<<p, u>> : p \in {None, PyStr("1"), PyStr("2"), PyStr("None")},
                        u \in {None, PyStr("7"), PyStr("None")}}
      [] e = "roblox_universe" -> {<<PyInt(1)>>, <<PyInt(2)>>}
      [] e = "steam_player"    -> {<<PyInt(440)>>, <<PyInt(570)>>}
      [] e = "steam_news"      ->
            {<<PyInt(440), PyInt(c), PyInt(m)>> : c \in {5, 10}, m \in {0, 300}}
      [] e = "epic_games"      ->
            {<<PyInt(c), PyStr(col), PyBool(f)>> :
                c \in {1, 10}, col \in {"most-played", "top-sellers", "bogus"},
                f \in BOOLEAN}
      [] e = "hytale_status"   ->
            {<<PyStr(h), port, PyStr(m)>> :
                h \in {"h", "g", "h|port=1|method=x"},
                port \in {None, PyInt(1), PyInt(2), PyInt(HYTALE_DEFAULT_GAME_PORT),
                          PyInt(HYTALE_DEFAULT_QUERY_PORT)},
                m \in {"nitrado", "hyquery", "foo", "x|port=2|method=nitrado"}}

\* the upstream probe a request stands for: the request the endpoint sends first
\* (what follows depends on the answers only) and, for get_epic_games, the
\* arguments count and free_only its probe section applies to the answer
ProbeOf(e, a) ==
    <<FirstRequest(e, a), IF e = "epic_games" THEN <<a[1], a[3]>> ELSE <<>>>>

InitKeys ==
    /\ Idle
    /\ ttl = [n \in TTLNames |-> 1]
    /\ probe = NoProbe
    /\ mc = NoPing
    /\ \E e \in Endpoints : \E a \in KeyArgs(e), b \in KeyArgs(e) :
          keys = [ep |-> e, a |-> a, b |-> b, built |-> FALSE]

\* key = ... for both requests; each stores a result under its key
BuildKeys ==
    /\ ~keys.built
    /\ keys.ep # ""
    /\ LET ka == KeyOf(keys.ep, keys.a)
           kb == KeyOf(keys.ep, keys.b)
           empty == [k \in {} |-> NoEntry]
       IN  keys' = [ep |-> keys.ep, a |-> keys.a, b |-> keys.b, built |-> TRUE,
                    ka |-> ka, kb |-> kb,
                    pa |-> ProbeOf(keys.ep, keys.a), pb |-> ProbeOf(keys.ep, keys.b),
                    dict |-> CachePut(CachePut(empty, ka, Entry(clock, keys.ep, "a")),
                                      kb, Entry(clock, keys.ep, "b"))]
    /\ UNCHANGED <<clock, ttl, cache, lock, waiters, call, probe, mc>>

NextKeys == BuildKeys

SpecKeys == InitKeys /\ [][NextKeys]_vars

\* the two requests share one cache entry
ShareEntry == Cardinality(DOMAIN keys.dict) = 1

\* C7: for get_hytale_status the default port is resolved before the key is built:
\* with the same host and method, port omitted and port = the method's default
\* (5520 for hyquery, 5523 otherwise) give the same key and share one entry; with
\* the same host and port, two different methods never share an entry.
C7_DefaultPortResolvedBeforeKey ==
    (keys.built /\ keys.ep = "hytale_status")
    => LET a == keys.a
           b == keys.b
           default == IF a[3] = PyStr("hyquery") THEN PyInt(5520) ELSE PyInt(5523)
       IN  /\ (a[1] = b[1] /\ a[3] = b[3] /\ a[2] = None /\ b[2] = default)
                => keys.ka = keys.kb /\ ShareEntry
           /\ (a[1] = b[1] /\ a[2] = b[2] /\ a[3] # b[3])
                => keys.ka # keys.kb /\ ~ShareEntry

\* a hyquery request without a port and one with port 5520 share one entry
C7_Witness ==
    /\ keys.built /\ keys.ep = "hytale_status"
    /\ keys.a[1] = keys.b[1]
    /\ keys.a[3] = PyStr("hyquery") /\ keys.b[3] = PyStr("hyquery")
    /\ keys.a[2] = None /\ keys.b[2] = PyInt(5520)
    /\ keys.ka = keys.kb /\ ShareEntry

\* C8: within each cache two requests have the same key if and only if they are
\* semantically identical after default resolution: requests that cause different
\* upstream probes never get the same key, and requests that cause the same
\* upstream probe always get the same key.
C8_SameKeyIffSameProbe ==
    keys.built => (keys.ka = keys.kb <=> keys.pa = keys.pb)

\* the half of C8 the code fails for str parameters: different upstream probes
\* never get the same key
C8_DifferentProbesDifferentKeys ==
    keys.built => (keys.pa # keys.pb => keys.ka # keys.kb)

(***************************************************************************)
(* The probe functions, each run once on one upstream outcome.             *)
(***************************************************************************)
\* the try block of get_roblox_status with its two upstream answers
RobloxStatusTry(place_id, universe_id, resp1, resp2) ==
    IF RobloxNeedsResolve(place_id, universe_id)
    THEN LET u == RobloxResolveTry(resp1)
         IN  IF IsExc(u) THEN u
             ELSE IF u = None THEN RobloxOffline
             ELSE RobloxGamesTry(resp2)
    ELSE RobloxGamesTry(resp2)

RobloxStatusProbe(place_id, universe_id, resp1, resp2) ==
    RobloxStatusExcept(RobloxStatusTry(place_id, universe_id, resp1, resp2))

ProbeFns ==
    {"get_roblox_status", "get_roblox_universe_id", "get_steam_player_count",
     "get_steam_news", "get_epic_games", "ping_hytale_nitrado", "ping_hytale_hyquery"}

\* the probe function fn run with the arguments a on the upstream outcome resp
RunOf(fn, a, resp, t) ==
    CASE fn = "get_roblox_status"      -> RobloxStatusProbe(a[1], a[2], resp[1], resp[2])
      [] fn = "get_roblox_universe_id" -> RobloxUniverseProbe(resp)
      [] fn = "get_steam_player_count" -> SteamPlayerProbe(a[1], resp, t)
      [] fn = "get_steam_news"         -> SteamNewsProbe(a[1], resp, t)
      [] fn = "get_epic_games"         -> EpicGamesProbe(a[1], a[3], resp, t)
      [] fn = "ping_hytale_nitrado"    -> ping_hytale_nitrado(resp)
      [] fn = "ping_hytale_hyquery"    -> ping_hytale_hyquery(resp)

\* JSON values of the wrong shape
Malformed ==
    {None, PyInt(0), PyStr("s"), PyList(<<>>), PyList(<<None>>), EmptyDict}

\* the JSON objects {k: v}, v in S
Wrap(k, S) == {PyDict([x \in {k} |-> v]) : v \in S}

\* the JSON arrays [v], v in S
ListOf(S) == {PyList(<<v>>) : v \in S}

\* the outcomes of an HTTP request whose JSON body, when there is one, is in bodies
HttpOutcomes(bodies) ==
    {Exc("ClientConnectorError"), Exc("TimeoutError")}
        \cup {Http(st, Exc("ContentTypeError")) : st \in {200, 500}}
        \cup {Http(200, Exc("JSONDecodeError"))}
        \cup {Http(st, b) : st \in {200, 404}, b \in bodies}

SteamPlayerBodies ==
    Malformed \cup Wrap("response",
        Malformed \cup Wrap("player_count", Malformed \cup {PyInt(5)}))

SteamNewsBodies ==
    Malformed \cup Wrap("appnews",
        Malformed \cup Wrap("newsitems",
            Malformed \cup ListOf(Malformed \cup Wrap("gid", {PyInt(9), None}))))

UniverseBodies == Malformed \cup Wrap("universeId", Malformed \cup {PyInt(7)})

GamesBodies ==
    Malformed \cup {PyStr("data"), PyList(<<PyStr("data")>>)}
        \cup Wrap("data",
                Malformed \cup ListOf(Malformed \cup Wrap("playing", {PyInt(3), None})))

NitradoBodies ==
    Malformed
        \cup Wrap("Server", Malformed \cup Wrap("Name", {PyStr("X"), None}))
        \cup Wrap("Universe", Malformed)
        \cup Wrap("Players",
                Malformed \cup ListOf(Malformed
                                      \cup Wrap("Name", {PyStr("n"), None, PyInt(1)})))

\* what do_udp_query gives: nothing, a datagram shorter than the preamble, eight
\* bytes that are or are not the magic followed by a payload, or an exception
HyQueryOutcomes ==
    {Exc("timeout"), Exc("OSError")}
        \cup {Datagram(h, EmptyPayload) :
                h \in {<<>>, <<72>>, SubSeq(magic_bytes, 1, 7)}}
        \cup {Datagram(h, rest) :
                h \in {magic_bytes, <<72, 89, 81, 85, 69, 82, 89, 1>>,
                       <<0, 89, 81, 85, 69, 82, 89, 0>>},
                rest \in {EmptyPayload, Exc("UnicodeDecodeError"), Exc("JSONDecodeError")}
                         \cup Malformed
                         \cup Wrap("name", {PyStr("X"), None})
                         \cup Wrap("players", Malformed \cup Wrap("online", {PyInt(1)}))}

EpicGameShapes ==
    Malformed \cup {EpicGame(0), EpicGame(5)}
        \cup Wrap("price", Malformed \cup Wrap("totalPrice", Malformed))
        \cup Wrap("seller", Malformed)
        \cup Wrap("catalogNs", Malformed \cup Wrap("mappings", Malformed))
        \cup Wrap("keyImages", Malformed \cup ListOf(Wrap("type", {PyStr("Thumbnail")})))

\* the formatted prices of an entry: originalPrice and discountPrice of fmtPrice
EpicPriceTexts ==
    {[originalPrice |-> PyStr("$19.99"), discountPrice |-> PyStr("0")],
     [originalPrice |-> PyStr("0"), discountPrice |-> PyStr("$19.99")],
     [originalPrice |-> PyStr("Free"), discountPrice |-> PyStr("Free")]}

\* the entries with a formatted price, with and without the numeric discountPrice
EpicPricedGames ==
    {PyDict([id |-> PyStr("g"), price |-> PyDict([totalPrice |->
                PyDict([discountPrice |-> d, fmtPrice |-> PyDict(f)])])]) :
        d \in {PyInt(0), PyInt(5), PyBool(FALSE), PyStr("0"), None},
        f \in EpicPriceTexts}
    \cup {PyDict([id |-> PyStr("g"), price |-> PyDict([totalPrice |->
                PyDict([fmtPrice |-> PyDict(f)])])]) : f \in EpicPriceTexts}

\* a collection of n entries priced 0
EpicLongCollection(n) == EpicRaw([i \in 1..n |-> EpicGame(0)])

EpicOutcomes ==
    {Exc("EGSException")} \cup Malformed
        \cup Wrap("data", Malformed \cup Wrap("Storefront", Malformed
                \cup Wrap("collectionLayout", Malformed
                        \cup Wrap("collectionOffers",
                                Malformed \cup ListOf(EpicGameShapes)))))
        \cup {EpicRaw(<<g1, g2>>) : g1, g2 \in EpicPricedGames}

\* the runs of a probe function: its arguments and the upstream outcome
ProbeRuns(fn) ==
    CASE fn = "get_roblox_status" ->
            {[args |-> <<PyStr("1"), None>>, resp |-> <<r1, r2>>] :
                r1 \in HttpOutcomes(UniverseBodies), r2 \in HttpOutcomes(GamesBodies)}
            \cup {[args |-> <<None, PyStr("7")>>, resp |-> <<None, r2>>] :
                    r2 \in HttpOutcomes(GamesBodies)}
      [] fn = "get_roblox_universe_id" ->
            {[args |-> <<PyInt(1)>>, resp |-> r] : r \in HttpOutcomes(UniverseBodies)}
      [] fn = "get_steam_player_count" ->
            {[args |-> <<PyInt(440)>>, resp |-> r] : r \in HttpOutcomes(SteamPlayerBodies)}
      [] fn = "get_steam_news" ->
            {[args |-> <<PyInt(440), PyInt(10), PyInt(300)>>, resp |-> r] :
                r \in HttpOutcomes(SteamNewsBodies)}
      [] fn = "get_epic_games" ->
            {[args |-> <<PyInt(c), PyStr("most-played"), PyBool(f)>>, resp |-> r] :
                c \in {-1, 0, 1, 2}, f \in BOOLEAN, r \in EpicOutcomes}
            \cup {[args |-> <<PyInt(c), PyStr("most-played"), PyBool(f)>>,
                   resp |-> EpicLongCollection(EPIC_MAX_COUNT + 1)] :
                    c \in {EPIC_MAX_COUNT, EPIC_MAX_COUNT + 1}, f \in BOOLEAN}
      [] fn = "ping_hytale_nitrado" ->
            {[args |-> <<PyStr("h"), PyInt(5523)>>, resp |-> r] :
                r \in HttpOutcomes(NitradoBodies)}
      [] fn = "ping_hytale_hyquery" ->
            {[args |-> <<PyStr("h"), PyInt(5520)>>, resp |-> r] : r \in HyQueryOutcomes}

(***************************************************************************)
(* ping_minecraft_server: the Java attempt, then the Bedrock attempt.      *)
(* JavaServer.lookup / BedrockServer.lookup and server.status belong to    *)
(* the mcstatus library: an attempt gives a status response or raises.     *)
(***************************************************************************)
\* the address handed to lookup: host, or str(host + ":" + str(server_port))
McAddress(host, server_port) ==
    IF server_port = None THEN Format(host)
    ELSE Format(host) \o ":" \o Format(server_port)

\* a status response of the library
McStatus(online, max, latency, version, motd, icon) ==
    [t |-> "status", online |-> online, max |-> max, latency |-> latency,
     version |-> version, motd |-> motd, icon |-> icon]

\* the dict returned after a successful Java attempt
JavaRecord(status) ==
    [is_online |-> TRUE, player_count |-> status.online, max_players |-> status.max,
     latency |-> status.latency, version |-> status.version, motd |-> status.motd,
     icon |-> status.icon]

\* (a variant in which a Bedrock answer is not taken for online)
BedrockRecordOffline(status) ==
    [is_online |-> FALSE, player_count |-> None, max_players |-> None,
     latency |-> None, version |-> None, motd |-> None, icon |-> None]

\* the dict returned after a successful Bedrock attempt
BedrockRecord(status) ==
    [is_online |-> TRUE, player_count |-> status.online, max_players |-> status.max,
     latency |-> status.latency, version |-> status.version, motd |-> status.motd,
     icon |-> None]

\* the dict returned when both attempts failed
McOffline ==
    [is_online |-> FALSE, player_count |-> None, max_players |-> None,
     latency |-> None, version |-> None, motd |-> None, icon |-> None]

McHosts == {PyStr("mc.example.org"), PyStr("10.0.0.1")}
McPorts == {None, PyInt(25565), PyInt(19132)}

\* what an attempt gives: connection refused, timeout, DNS failure, a malformed
\* handshake, or a status response
McFailures ==
    {Exc("ConnectionRefusedError"), Exc("TimeoutError"), Exc("gaierror"), Exc("IOError")}

JavaOutcomes ==
    McFailures \cup {McStatus(PyInt(3), PyInt(20), PyInt(12), PyStr("1.20.4"),
                              PyStr("A Minecraft Server"), icon) :
                        icon \in {None, PyStr("data:image/png;base64,AAAA")}}

BedrockOutcomes ==
    McFailures \cup {McStatus(PyInt(1), PyInt(10), PyInt(30), PyStr("1.20.50"),
                              PyStr("Bedrock Server"), None)}

\* one run starts: a probe function with its upstream outcome, or a call of
\* ping_minecraft_server
InitProbes ==
    /\ Idle
    /\ ttl = [n \in TTLNames |-> 1]
    /\ keys = NoKeys
    /\ \/ /\ \E fn \in ProbeFns : \E run \in ProbeRuns(fn) :
                probe = [fn |-> fn, args |-> run.args, resp |-> run.resp,
                         done |-> FALSE, out |-> NoRet]
          /\ mc = NoPing
       \/ /\ probe = NoProbe
          /\ \E host \in McHosts, server_port \in McPorts :
                mc = [pc |-> "start", host |-> host, server_port |-> server_port,
                      tried |-> <<>>, java |-> NoRet, bedrock |-> NoRet, ret |-> NoRet]

\* the probe function runs to its return
RunProbe ==
    /\ probe.fn # ""
    /\ ~probe.done
    /\ probe' = [probe EXCEPT !.done = TRUE,
                              !.out = RunOf(probe.fn, probe.args, probe.resp, clock)]
    /\ UNCHANGED <<clock, ttl, cache, lock, waiters, call, keys, mc>>

\* ping_minecraft_server is called: the Java lookup and status run in a thread
PingJava ==
    /\ mc.pc = "start"
    /\ mc' = [mc EXCEPT !.pc = "java",
                        !.tried = Append(@, <<"java", McAddress(mc.host, mc.server_port)>>)]
    /\ UNCHANGED <<clock, ttl, cache, lock, waiters, call, keys, probe>>

\* the Java attempt ends: the record is returned, or (except Exception) the Bedrock
\* lookup and status run
JavaDone ==
    /\ mc.pc = "java"
    /\ \E o \in JavaOutcomes :
          mc' = IF IsExc(o)
                THEN [mc EXCEPT !.pc = "bedrock", !.java = o,
                                !.tried = Append(@, <<"bedrock",
                                              McAddress(mc.host, mc.server_port)>>)]
                ELSE [mc EXCEPT !.pc = "done", !.java = o, !.ret = JavaRecord(o)]
    /\ UNCHANGED <<clock, ttl, cache, lock, waiters, call, keys, probe>>

\* the Bedrock attempt ends: the record, or (except Exception) the offline record
BedrockDone ==
    /\ mc.pc = "bedrock"
    /\ \E o \in BedrockOutcomes :
          mc' = [mc EXCEPT !.pc = "done", !.bedrock = o,
                           !.ret = IF IsExc(o) THEN McOffline ELSE BedrockRecord(o)]
    /\ UNCHANGED <<clock, ttl, cache, lock, waiters, call, keys, probe>>

NextProbes ==
    \/ RunProbe
    \/ PingJava
    \/ JavaDone
    \/ BedrockDone

SpecProbes == InitProbes /\ [][NextProbes]_vars

\* the field of a probe function's record that says online, or found, or not empty
Indicator(fn) ==
    CASE fn \in {"get_roblox_status", "ping_hytale_nitrado", "ping_hytale_hyquery"}
            -> "is_online"
      [] fn = "get_roblox_universe_id" -> "universe_id"
      [] fn = "get_steam_player_count" -> "player_count"
      [] fn = "get_steam_news"         -> "news"
      [] fn = "get_epic_games"         -> "games"

\* the last upstream request of the run raised (connection failure, timeout), or
\* its body was no JSON
UpstreamFailed ==
    LET r == IF probe.fn = "get_roblox_status"
             THEN (IF RobloxNeedsResolve(probe.args[1], probe.args[2])
                   THEN probe.resp[1] ELSE probe.resp[2])
             ELSE probe.resp
    IN  IsExc(r) \/ (r.t = "http" /\ IsExc(r.body))

\* the offline or empty record of a probe function
OfflineOut ==
    CASE probe.fn \in {"get_roblox_status", "ping_hytale_nitrado", "ping_hytale_hyquery"}
            -> probe.out = [is_online |-> FALSE]
      [] probe.fn = "get_roblox_universe_id" -> probe.out = [universe_id |-> None]
      [] probe.fn = "get_steam_player_count" -> probe.out.player_count = None
      [] probe.fn = "get_steam_news"         -> probe.out.news = <<>>
      [] probe.fn = "get_epic_games"         -> probe.out.games = <<>>

\* C6: for every upstream outcome (connection failure, timeout, non-200 status,
\* malformed or non-object JSON, missing or null fields) each probe function
\* returns a record with its online/empty indicator and lets no exception escape;
\* after a transport or parse failure the record is the offline or empty one.
C6_ProbesNeverRaise ==
    /\ probe.done
          => /\ ~IsExc(probe.out)
             /\ Indicator(probe.fn) \in DOMAIN probe.out
             /\ UpstreamFailed => OfflineOut
    /\ mc.pc = "done"
          => /\ ~IsExc(mc.ret)
             /\ "is_online" \in DOMAIN mc.ret

\* ping_hytale_nitrado got a 200 whose JSON body is an array and returned offline
C6_Witness ==
    /\ probe.done /\ probe.fn = "ping_hytale_nitrado"
    /\ probe.resp = Http(200, PyList(<<>>))
    /\ probe.out = [is_online |-> FALSE]

\* C9: ping_minecraft_server attempts Java first, and Bedrock with the same host
\* and port if and only if the Java attempt failed; the result is the Java record
\* (online) when Java succeeds, an online record with icon = null when Java fails
\* and Bedrock succeeds, and the offline record with player_count, max_players,
\* latency, version, motd and icon all null when both fail.
C9_JavaThenBedrock ==
    LET addr == McAddress(mc.host, mc.server_port)
    IN  /\ mc.pc \in {"java", "bedrock", "done"} => mc.tried[1] = <<"java", addr>>
        /\ mc.pc = "java" => Len(mc.tried) = 1
        /\ mc.pc = "bedrock" => IsExc(mc.java) /\ mc.tried = <<<<"java", addr>>, <<"bedrock", addr>>>>
        /\ mc.pc = "done"
              => /\ IsExc(mc.java) <=> Len(mc.tried) = 2
                 /\ Len(mc.tried) = 2 => mc.tried[2] = <<"bedrock", addr>>
                 /\ ~IsExc(mc.java)
                       => mc.ret = [is_online |-> TRUE, player_count |-> mc.java.online,
                                    max_players |-> mc.java.max,
                                    latency |-> mc.java.latency,
                                    version |-> mc.java.version, motd |-> mc.java.motd,
                                    icon |-> mc.java.icon]
                 /\ (IsExc(mc.java) /\ ~IsExc(mc.bedrock))
                       => /\ mc.ret.is_online /\ mc.ret.icon = None
                          /\ mc.ret.player_count = mc.bedrock.online
                          /\ mc.ret.max_players = mc.bedrock.max
                          /\ mc.ret.latency = mc.bedrock.latency
                          /\ mc.ret.version = mc.bedrock.version
                          /\ mc.ret.motd = mc.bedrock.motd
                 /\ (IsExc(mc.java) /\ IsExc(mc.bedrock))
                       => mc.ret = [is_online |-> FALSE, player_count |-> None,
                                    max_players |-> None, latency |-> None,
                                    version |-> None, motd |-> None, icon |-> None]

\* Java failed, Bedrock answered: an online record without icon
C9_Witness ==
    /\ mc.pc = "done" /\ IsExc(mc.java) /\ ~IsExc(mc.bedrock)
    /\ mc.tried = <<<<"java", "mc.example.org">>, <<"bedrock", "mc.example.org">>>>
    /\ mc.ret.is_online /\ mc.ret.icon = None

\* C10: ping_hytale_hyquery returns the offline record, without raising, whenever
\* the UDP response is empty, shorter than 8 bytes, or does not begin with the
\* 8-byte magic "HYQUERY\0", and whenever the bytes after the preamble fail UTF-8
\* decoding or JSON parsing.
C10_HyQueryOfflineOnBadDatagram ==
    (probe.done /\ probe.fn = "ping_hytale_hyquery" /\ ~IsExc(probe.resp))
    => LET d == probe.resp
       IN  (\/ Len(d.head) < 8
            \/ d.head # <<72, 89, 81, 85, 69, 82, 89, 0>>
            \/ d.rest = EmptyPayload
            \/ d.rest = Exc("UnicodeDecodeError")
            \/ d.rest = Exc("JSONDecodeError"))
           => probe.out = [is_online |-> FALSE]

\* eight bytes that differ from the magic in the last one, before a payload that
\* parses: offline
C10_Witness ==
    /\ probe.done /\ probe.fn = "ping_hytale_hyquery"
    /\ probe.resp = Datagram(<<72, 89, 81, 85, 69, 82, 89, 1>>,
                             PyDict([name |-> PyStr("X")]))
    /\ probe.out = [is_online |-> FALSE]

\* the numeric price.totalPrice.discountPrice of a collection entry, when it has one
C13_DiscountPrice(g) ==
    IF /\ g.t = "dict" /\ "price" \in DOMAIN g.v
       /\ g.v.price.t = "dict" /\ "totalPrice" \in DOMAIN g.v.price.v
       /\ g.v.price.v.totalPrice.t = "dict"
       /\ "discountPrice" \in DOMAIN g.v.price.v.totalPrice.v
    THEN g.v.price.v.totalPrice.v.discountPrice
    ELSE [t |-> "absent"]

\* C13: _transform_epic_game sets is_free = true if and only if the entry's numeric
\* price.totalPrice.discountPrice equals 0 (Python's ==, under which False equals 0
\* too), whatever the formatted originalPrice/discountPrice text says; an entry
\* with no discountPrice gets is_free = false; and with free_only set every game
\* returned by get_epic_games is the transformation of an entry and has
\* is_free = true.
C13_FreeIffDiscountPriceZero ==
    (probe.done /\ probe.fn = "get_epic_games")
    => LET offers == EpicElements(probe.resp)
       IN  /\ (~IsExc(offers) /\ offers.t = "list")
                 => \A i \in 1..Len(offers.v) :
                       LET tr == _transform_epic_game(offers.v[i])
                           d == C13_DiscountPrice(offers.v[i])
                       IN  ~IsExc(tr)
                              => /\ tr.is_free <=> (d = PyInt(0) \/ d = PyBool(FALSE))
                                 /\ d = [t |-> "absent"] => ~tr.is_free
           /\ \A i \in 1..Len(probe.out.games) :
                 /\ \E j \in 1..Len(offers.v) :
                       probe.out.games[i] = _transform_epic_game(offers.v[j])
                 /\ probe.args[3].v => probe.out.games[i].is_free

\* free_only with count 1 on a collection of a paid entry followed by an entry
\* priced 0 whose original price text is "$19.99": the second entry is returned,
\* free
C13_Witness ==
    /\ probe.done /\ probe.fn = "get_epic_games"
    /\ probe.args[1] = PyInt(1) /\ probe.args[3] = PyBool(TRUE)
    /\ ~IsExc(EpicElements(probe.resp)) /\ EpicElements(probe.resp).t = "list"
    /\ Len(EpicElements(probe.resp).v) = 2
    /\ C13_DiscountPrice(EpicElements(probe.resp).v[1]) = PyInt(5)
    /\ C13_DiscountPrice(EpicElements(probe.resp).v[2]) = PyInt(0)
    /\ Len(probe.out.games) = 1
    /\ probe.out.games[1].is_free
    /\ probe.out.games[1].original_price = PyStr("$19.99")

\* the number of entries of the collection that get_epic_games is to choose from:
\* all of them, or with free_only those priced 0
C14_Available ==
    LET offers == EpicElements(probe.resp).v
    IN  Cardinality({i \in 1..Len(offers) :
                        probe.args[3].v
                           => C13_DiscountPrice(offers[i]) \in {PyInt(0), PyBool(FALSE)}})

\* the collection arrived as a list whose entries all have the shape of a game
C14_WellFormed ==
    /\ ~IsExc(EpicElements(probe.resp)) /\ EpicElements(probe.resp).t = "list"
    /\ \A i \in 1..Len(EpicElements(probe.resp).v) :
          ~IsExc(_transform_epic_game(EpicElements(probe.resp).v[i]))

\* C14: get_epic_games returns a number of games equal to count when the
\* (filtered) collection has at least count entries, and never more than 100
\* games, for every integer count supplied by the caller.
C14_CountBoundsGames ==
    (probe.done /\ probe.fn = "get_epic_games" /\ C14_WellFormed)
    => /\ Len(probe.out.games) <= EPIC_MAX_COUNT
       /\ C14_Available >= probe.args[1].v => Len(probe.out.games) = probe.args[1].v

(***************************************************************************)
(* get_server_status beside get_hytale_status: the two endpoints whose     *)
(* probe has more than one method.  get_server_status awaits               *)
(* ping_minecraft_server and builds its response; a request of it is at    *)
(* "java" while the Java status call runs in its thread, at "bedrock"      *)
(* while the Bedrock one does.                                             *)
(***************************************************************************)
ServerArgs == {<<PyStr("mc.example.org"), None>>, <<PyStr("mc.example.org"), PyInt(25565)>>}

\* the methods get_hytale_status is called with: the two it names and another text
ServerHytaleArgs ==
    {<<PyStr("h"), None, PyStr(m)>> : m \in {"nitrado", "hyquery", "HyQuery"}}

\* what the attempts of a request give: a failure or a status response
ServerJavaOutcomes ==
    {Exc("ConnectionRefusedError"),
     McStatus(PyInt(3), PyInt(20), PyInt(12), PyStr("1.20.4"),
              PyStr("A Minecraft Server"), None)}

ServerBedrockOutcomes ==
    {Exc("TimeoutError"),
     McStatus(PyInt(1), PyInt(10), PyInt(30), PyStr("1.20.50"), PyStr("Bedrock Server"),
              None)}

JavaAttempt(host, server_port) == "mcstatus:JavaServer:" \o McAddress(host, server_port)
BedrockAttempt(host, server_port) ==
    "mcstatus:BedrockServer:" \o McAddress(host, server_port)

\* ServerStatusResponse(isOnline=status["is_online"], ...)
ServerStatusResponse(status, t) ==
    [isOnline |-> status.is_online, onlinePlayers |-> status.player_count,
     maxPlayers |-> status.max_players, ping |-> status.latency,
     version |-> status.version, description |-> status.motd,
     checkedAt |-> t, icon |-> status.icon]

\* the request is inside ping_minecraft_server
Pinging(r) == call[r].pc \in {"java", "bedrock"}

InitServers ==
    /\ Idle
    /\ ttl = [n \in TTLNames |-> 1]
    /\ keys = NoKeys
    /\ probe = NoProbe
    /\ mc = NoPing

\* get_server_status is called: ping_minecraft_server looks the Java server up and
\* awaits its status
ServerCall(r, host, server_port) ==
    /\ call[r].pc = "idle"
    /\ \A q \in 1..(r - 1) : call[q].pc # "idle"
    /\ call' = [call EXCEPT ![r] =
          [IdleCall EXCEPT !.pc = "java", !.ep = "minecraft_status",
                           !.args = <<host, server_port>>, !.now = clock,
                           !.conc = {q \in Requests : InFlight(q) \/ Pinging(q)},
                           !.sent = <<JavaAttempt(host, server_port)>>]]
    /\ UNCHANGED <<clock, ttl, cache, lock, waiters, keys, probe, mc>>

\* the Java status call ends: the response is built from its record and returned,
\* or (except Exception) the Bedrock server is looked up and its status awaited
ServerJavaDone(r) ==
    /\ call[r].pc = "java"
    /\ \E o \in ServerJavaOutcomes :
          call' = [call EXCEPT ![r] =
              IF IsExc(o)
              THEN [@ EXCEPT !.pc = "bedrock", !.got = Append(@, o),
                             !.sent = Append(@, BedrockAttempt(call[r].args[1],
                                                               call[r].args[2]))]
              ELSE [@ EXCEPT !.pc = "done", !.got = Append(@, o), !.via = "probe",
                             !.ret = ServerStatusResponse(JavaRecord(o), clock),
                             !.done_at = clock]]
    /\ UNCHANGED <<clock, ttl, cache, lock, waiters, keys, probe, mc>>

\* the Bedrock status call ends: the response is built from its record, or
\* (except Exception) from the offline record
ServerBedrockDone(r) ==
    /\ call[r].pc = "bedrock"
    /\ \E o \in ServerBedrockOutcomes :
          call' = [call EXCEPT ![r] =
              [@ EXCEPT !.pc = "done", !.got = Append(@, o), !.via = "probe",
                        !.ret = ServerStatusResponse(
                                    IF IsExc(o) THEN McOffline ELSE BedrockRecord(o), clock),
                        !.done_at = clock]]
    /\ UNCHANGED <<clock, ttl, cache, lock, waiters, keys, probe, mc>>

NextServers ==
    \/ Tick
    \/ \E r \in Requests : \E a \in ServerArgs : ServerCall(r, a[1], a[2])
    \/ \E r \in Requests : ServerJavaDone(r)
    \/ \E r \in Requests : ServerBedrockDone(r)
    \/ \E r \in Requests : \E a \in ServerHytaleArgs : Call(r, "hytale_status", a)
    \/ \E r \in Requests : Acquire(r)
    \/ \E r \in Requests : ProbeDone(r)

SpecServers == InitServers /\ [][NextServers]_vars

\* C18: for every provider endpoint, the Minecraft status endpoint included, an
\* upstream probe is invoked only by a caller that has built a key, found no fresh
\* entry, holds the provider's gate and has re-checked the cache under it;
\* consequently two concurrent requests for the same Minecraft host and port
\* cause at most one upstream probe.
C18_ProbeOnlyBehindGate ==
    /\ \A r \in Requests :
          (Probing(r) \/ Pinging(r))
          => /\ call[r].key # ""
             /\ call[r].ep \in Endpoints
             /\ lock[call[r].ep] = r
             /\ ~Fresh(call[r].cached, call[r].now)
    /\ \A r, q \in Requests :
          (/\ r # q /\ call[r].ep = "minecraft_status" /\ call[q].ep = "minecraft_status"
           /\ call[r].args = call[q].args /\ Concurrent(r, q))
          => ~(Probed(r) /\ Probed(q))

\* The statement of C18 for the cached endpoints: a request that is probing has
\* built its key, holds the gate of its endpoint and found no fresh entry in the
\* re-check under it.
C18_HoldsForCachedEndpoints ==
    \A r \in Requests :
        Probing(r)
        => /\ call[r].key = KeyOf(call[r].ep, call[r].args)
           /\ lock[call[r].ep] = r
           /\ ~Fresh(call[r].cached, call[r].now)
           /\ call[r].cached = CacheGet(cache[call[r].ep], call[r].key)

\* the number of times request r sent the upstream request u
C19_Times(r, u) == Cardinality({i \in 1..Len(call[r].sent) : call[r].sent[i] = u})

\* C19: no upstream method is attempted more than once per call: a Minecraft call
\* makes at most one Java attempt and at most one Bedrock attempt, and a Hytale
\* call that reaches its probe invokes exactly one method, HyQuery when
\* method = "hyquery" and Nitrado for every other method value, with no fallback
\* to the other method when the selected one fails.
C19_OneAttemptPerMethod ==
    \A r \in Requests :
        /\ call[r].ep = "minecraft_status"
              => /\ C19_Times(r, JavaAttempt(call[r].args[1], call[r].args[2])) <= 1
                 /\ C19_Times(r, BedrockAttempt(call[r].args[1], call[r].args[2])) <= 1
                 /\ Len(call[r].sent) <= 2
                 /\ Len(call[r].got) <= Len(call[r].sent)
        /\ (call[r].ep = "hytale_status"
               /\ (Probing(r) \/ (Finished(r) /\ call[r].via \notin {"fast", "recheck"})))
              => /\ Len(call[r].sent) = 1
                 /\ call[r].sent[1] =
                       IF call[r].args[3] = PyStr("hyquery")
                       THEN HytaleUdpAddr(call[r].args[1],
                                          IF call[r].args[2] # None THEN call[r].args[2]
                                          ELSE PyInt(HYTALE_DEFAULT_GAME_PORT))
                       ELSE HytaleNitradoUrl(call[r].args[1],
                                             IF call[r].args[2] # None THEN call[r].args[2]
                                             ELSE PyInt(HYTALE_DEFAULT_QUERY_PORT))

\* a Hytale call with method "hyquery" whose one UDP query timed out returned
\* offline without a Nitrado request, and a Minecraft call returned offline after
\* one failed Java and one failed Bedrock attempt
C19_Witness ==
    \E r, q \in Requests :
        /\ call[r].ep = "hytale_status" /\ call[r].args[3] = PyStr("hyquery")
        /\ call[r].pc = "done" /\ call[r].got = <<Exc("timeout")>>
        /\ call[r].sent = <<"udp://h:5520">>
        /\ ~call[r].ret.isOnline
        /\ call[q].ep = "minecraft_status" /\ call[q].pc = "done"
        /\ Len(call[q].sent) = 2 /\ Len(call[q].got) = 2
        /\ IsExc(call[q].got[1]) /\ IsExc(call[q].got[2])
        /\ ~call[q].ret.isOnline
====
